---- MODULE Spec2Model ----
(***************************************************************************)
(* A model of the catwalk test driver (driver.go): the two queues d.cmds   *)
(* and d.msgs, the directive interpreter (RunOneTest / handleRun /        *)
(* handleSet), effect execution with a bounded wait (runTeaCmd), composite *)
(* expansion (processTeaCmds) and event draining (processTeaMsgs).         *)
(*                                                                         *)
(* The driver state is the record d.  A second record, tw, is the same     *)
(* driver run in lockstep on the same directives, against a component      *)
(* whose effects explicitly return nil wherever the effect of d times out. *)
(* Queue entries carry ghost fields (id, gen, par, idx, at, from, src)     *)
(* that identify effect and event instances; the code has no such fields.  *)
(*                                                                         *)
(* Timing: an effect has a duration; the wait of runTeaCmd receives the    *)
(* result when the duration is at most d.cmdTimeout and times out when it  *)
(* is at least d.cmdTimeout.                                               *)
(***************************************************************************)
EXTENDS Integers, Sequences, FiniteSets, TLC

VARIABLES d, tw, pc, ph, body, traceArg, traceEnabled, cur, mi, tasks, out,
          nextId, ncmd, nruns, nsets, initCalls, execLog, evLog, updLog,
          nfatal, lineNo, timedOut, toRun, ulog

vars == <<d, tw, pc, ph, body, traceArg, traceEnabled, cur, mi, tasks, out,
          nextId, ncmd, nruns, nsets, initCalls, execLog, evLog, updLog,
          nfatal, lineNo, timedOut, toRun, ulog>>

\* ---------------------------------------------------------------- bounds
\* directives (run, set, reset) per session
MaxDirectives == 3
\* input commands per session
MaxInputs == 2

\* ------------------------------------------------------------- constants
defaultCmdTimeout == 20
LongTimeout == 500
SlowDuration == 70
WinWidth == 80
WinHeight == 25

\* --------------------------------------------------------------- messages
\* A tea.Msg: its Go type, its payload v and, for a tea.KeyMsg, the key type
\* kt and the Alt flag; cmds is the []tea.Cmd of a BatchMsg / sequenceMsg.
Msg(type, v) == [type |-> type, kt |-> "", v |-> v, alt |-> FALSE, cmds |-> <<>>]
CmdsMsg(type, cs) == [type |-> type, kt |-> "", v |-> "", alt |-> FALSE, cmds |-> cs]
NilMsg == Msg("nil", "")
WindowSizeMsg(w, h) == Msg("tea.WindowSizeMsg", ToString(w) \o " " \o ToString(h))
KeyMsg(kt, r, alt) == [type |-> "tea.KeyMsg", kt |-> kt, v |-> r, alt |-> alt, cmds |-> <<>>]
Println(s) == Msg("tea.printLineMessage", s)

\* the nil tea.Cmd
NilCmd == "nil"

\* ------------------------------------------------- the component under test
\* The component is put together from the test components of the package:
\* the batches and sequences of cmdModel and cmdUpdater, the primitives and
\* the nil and slow effects of emptyModel, the state of intModel; to these it
\* adds an effect that never returns, opaque events whose update returns
\* a further effect, a composite that yields itself (Forever) and an effect
\* whose opaque event makes Update return the same effect (Again).
\* What each tea.Cmd of the component does when run: how long it takes,
\* whether it returns at all, and the tea.Msg it returns.
CmdTable ==
  [ InitB  |-> [dur |-> 0, returns |-> TRUE,
                res |-> CmdsMsg("tea.BatchMsg", <<"Pi1", "SeqI">>)],
    SeqI   |-> [dur |-> 0, returns |-> TRUE,
                res |-> CmdsMsg("tea.sequenceMsg", <<"HideCursor", "Op2">>)],
    BatchU |-> [dur |-> 0, returns |-> TRUE,
                res |-> CmdsMsg("tea.BatchMsg", <<"Pu1", "NilF", "SeqU", "DisableMouse">>)],
    SeqU   |-> [dur |-> 0, returns |-> TRUE,
                res |-> CmdsMsg("tea.sequenceMsg", <<"EnterAlt", NilCmd, "ExitAlt">>)],
    BatchT |-> [dur |-> 0, returns |-> TRUE,
                res |-> CmdsMsg("tea.BatchMsg", <<"Quit", "SeqT", "MouseCell">>)],
    SeqT   |-> [dur |-> 0, returns |-> TRUE,
                res |-> CmdsMsg("tea.sequenceMsg", <<"Never", "Slow", "MouseAll">>)],
    Pi1    |-> [dur |-> 0, returns |-> TRUE, res |-> Println("init1")],
    Pu1    |-> [dur |-> 0, returns |-> TRUE, res |-> Println("upd1")],
    Pm     |-> [dur |-> 0, returns |-> TRUE, res |-> Println("MODEL UPDATE")],
    Quit   |-> [dur |-> 0, returns |-> TRUE, res |-> Msg("tea.quitMsg", "")],
    Exec   |-> [dur |-> 0, returns |-> TRUE, res |-> Msg("tea.execMsg", "")],
    HideCursor |-> [dur |-> 0, returns |-> TRUE, res |-> Msg("tea.hideCursorMsg", "")],
    EnterAlt |-> [dur |-> 0, returns |-> TRUE, res |-> Msg("tea.enterAltScreenMsg", "")],
    ExitAlt  |-> [dur |-> 0, returns |-> TRUE, res |-> Msg("tea.exitAltScreenMsg", "")],
    MouseCell |-> [dur |-> 0, returns |-> TRUE,
                   res |-> Msg("tea.enableMouseCellMotionMsg", "")],
    MouseAll |-> [dur |-> 0, returns |-> TRUE,
                  res |-> Msg("tea.enableMouseAllMotionMsg", "")],
    DisableMouse |-> [dur |-> 0, returns |-> TRUE, res |-> Msg("tea.disableMouseMsg", "")],
    NilF   |-> [dur |-> 0, returns |-> TRUE, res |-> NilMsg],
    Never  |-> [dur |-> 0, returns |-> FALSE, res |-> NilMsg],
    Slow   |-> [dur |-> SlowDuration, returns |-> TRUE,
                res |-> Println("DELAYED HELLO")],
    Op2    |-> [dur |-> 0, returns |-> TRUE, res |-> Msg("opaque", "o2")],
    Op1    |-> [dur |-> 0, returns |-> TRUE, res |-> Msg("opaque", "o1")],
    Again  |-> [dur |-> 0, returns |-> TRUE, res |-> Msg("opaque", "again")],
    Forever |-> [dur |-> 0, returns |-> TRUE,
                 res |-> CmdsMsg("tea.sequenceMsg", <<"Forever">>)] ]

\* m.Init()
ModelInit == "InitB"

\* The tea.Cmd returned by m.Update(msg).
UpdateCmd(msg) ==
  CASE msg.type = "tea.KeyMsg" /\ msg.kt = "runes" /\ msg.v = "a" -> "BatchU"
    [] msg.type = "tea.KeyMsg" /\ msg.kt = "runes" /\ msg.v = "o" -> "Op2"
    [] msg.type = "tea.KeyMsg" /\ msg.kt = "runes" /\ msg.v = "w" -> "Slow"
    [] msg.type = "tea.KeyMsg" /\ msg.kt = "runes" /\ msg.v = "e" -> "NilF"
    [] msg.type = "tea.KeyMsg" /\ msg.kt = "runes" /\ msg.v = "q" -> "Quit"
    [] msg.type = "tea.KeyMsg" /\ msg.kt = "runes" /\ msg.v = "l" -> "Again"
    [] msg.type = "tea.KeyMsg" /\ msg.kt = "runes" /\ msg.v = "f" -> "Forever"
    [] msg.type = "opaque" /\ msg.v = "again" -> "Again"
    [] msg.type = "opaque" /\ msg.v = "o2" -> "Op1"
    [] msg.type = "opaque" /\ msg.v = "o1" -> "Exec"
    [] msg.type = "tea.KeyMsg" /\ msg.kt = "enter" -> NilCmd
    [] OTHER -> "Pm"

MsgCode(msg) ==
  CASE msg.type = "tea.KeyMsg" -> 1
    [] msg.type = "opaque" -> 2
    [] OTHER -> 3

\* m.Update(msg): the new model and the returned tea.Cmd.
Update(m, msg) ==
  [m |-> (2 * m + MsgCode(msg)) % 7, cmd |-> UpdateCmd(msg)]

\* intModel.View(), as the pieces of its text
View(m) == <<"VALUE: ", ToString(m)>>

\* The dynamic types of the tea.Model the driver holds: intModel, whose
\* value the model counts modulo 7; textModel, a component that only has the
\* text of its view (the driver's field vt holds it, as pieces); structModel,
\* which also has the Debug method.
ModelTypes == {"intModel", "textModel", "structModel"}

\* d.m.View() for the driver dr
ModelView(dr) == IF dr.mt = "intModel" THEN View(dr.m) ELSE dr.vt

\* md, ok := m.(dbg)
HasDebug(dr) == dr.mt = "structModel"

\* strings.HasPrefix
HasPrefix(w, p) == Len(w) >= Len(p) /\ SubSeq(w, 1, Len(p)) = p

\* strings.TrimPrefix
TrimPrefix(w, p) == IF HasPrefix(w, p) THEN SubSeq(w, Len(p) + 1, Len(w)) ELSE w

\* The nil tea.Model.
NilModel == -1

\* What an Updater returns: supported, newModel, teaCmd, err.
UpdResult(supported, m, cmd, err) ==
  [supported |-> supported, m |-> m, cmd |-> cmd, err |-> err, why |-> ""]

\* The same with the error fmt.Errorf(why, ...).
UpdError(supported, m, why) ==
  [supported |-> supported, m |-> m, cmd |-> NilCmd, err |-> TRUE, why |-> why]

\* The Updater of the test component.
Updater(m, cmd, args) ==
  CASE cmd = "noopcmd" -> UpdResult(TRUE, m, "BatchT", FALSE)
    [] cmd = "double" -> UpdResult(TRUE, (2 * m) % 7, NilCmd, FALSE)
    [] OTHER -> UpdResult(FALSE, NilModel, NilCmd, FALSE)

\* The updaters of TestChainUpdaters.
upd1(m, cmd, args) ==
  IF cmd = "hello" THEN UpdResult(TRUE, NilModel, NilCmd, FALSE)
                   ELSE UpdResult(FALSE, NilModel, NilCmd, FALSE)

upd2(m, cmd, args) ==
  IF cmd = "world" THEN UpdResult(TRUE, NilModel, NilCmd, FALSE)
                   ELSE UpdResult(FALSE, NilModel, NilCmd, FALSE)

\* The text of the pieces of w.
RECURSIVE Text(_)
Text(w) == IF w = <<>> THEN "" ELSE Head(w) \o Text(Tail(w))

\* The struct that the appliers of a test hold by reference, as
\* SimpleStylesApplier(&s) and SimpleKeyMapApplier(&s) do: a field S of type
\* lipgloss.Style, a field B of type key.Binding and a field N of type int.
\* val is the style or the keys of the field, on is Enabled() of a binding.
Field(type) == [type |-> type, val |-> <<>>, on |-> TRUE, help |-> <<>>]
StyledStruct == [S |-> Field("lipgloss.Style"), B |-> Field("key.Binding"), N |-> Field("int")]

\* No error.
NoErr == ""

\* reflect: v.FieldByName(name) and the test of its type
FieldError(km, name, type) ==
  IF Text(name) \notin DOMAIN km THEN "does not contain a field named"
  ELSE IF km[Text(name)].type # type THEN "does not have type " \o type
  ELSE NoErr

\* (mutant) the type of the field is not tested
getStyle_AnyType(km, styleName) ==
  IF Text(styleName) \notin DOMAIN km THEN "does not contain a field named" ELSE NoErr

\* getStyle: its error
getStyle(km, styleName) == FieldError(km, styleName, "lipgloss.Style")

\* getBinding: its error
getBinding(km, bindingName) == FieldError(km, bindingName, "key.Binding")

\* lipglossc.Import fails on a text it cannot parse; the word bad stands for
\* such a text.
ImportFails(newStyle) == \E i \in 1..Len(newStyle) : newStyle[i] = <<"bad">>

\* What a change of the struct returns: the struct after it and the error.
Changed(km, err) == [km |-> km, err |-> err]

\* applyStyleUpdate
applyStyleUpdate(km, styleName, newStyle) ==
  IF getStyle(km, styleName) # NoErr THEN Changed(km, getStyle(km, styleName))
  ELSE IF ImportFails(newStyle) THEN Changed(km, "lipglossc.Import")
  ELSE Changed([km EXCEPT ![Text(styleName)].val = newStyle], NoErr)

\* applyKeyRebind
applyKeyRebind(km, bindingName, newKeys) ==
  IF getBinding(km, bindingName) # NoErr THEN Changed(km, getBinding(km, bindingName))
  ELSE IF newKeys = <<<<"enable">>>>
    THEN Changed([km EXCEPT ![Text(bindingName)].on = TRUE], NoErr)
  ELSE IF newKeys = <<<<"disable">>>>
    THEN Changed([km EXCEPT ![Text(bindingName)].on = FALSE], NoErr)
  ELSE IF newKeys = <<<<"unbind">>>>
    THEN Changed([km EXCEPT ![Text(bindingName)].val = <<>>,
                            ![Text(bindingName)].help = <<>>], NoErr)
  ELSE Changed([km EXCEPT ![Text(bindingName)].val = newKeys], NoErr)

\* applyKeyNewHelp
applyKeyNewHelp(km, bindingName, helpKey, helpText) ==
  IF getBinding(km, bindingName) # NoErr THEN Changed(km, getBinding(km, bindingName))
  ELSE Changed([km EXCEPT ![Text(bindingName)].help = <<helpKey>> \o helpText], NoErr)

\* What a field updater did: what it returns and the struct after it.
FieldResult(r, km) == [r |-> r, km |-> km]

\* The result (true, newM, nil, err) after apply, with the applier of
\* SimpleStylesApplier, which returns m.
AfterApply(m, c) ==
  FieldResult(IF c.err = NoErr THEN UpdResult(TRUE, m, NilCmd, FALSE)
              ELSE UpdError(TRUE, m, c.err), c.km)

\* handleStyleUpdate
handleStyleUpdate(prefix, km, m, inputcmd, args) ==
  IF inputcmd # "restyle" THEN FieldResult(UpdResult(FALSE, m, NilCmd, FALSE), km)
  ELSE IF Len(args) < 2 THEN FieldResult(UpdError(FALSE, m, "syntax: restyle"), km)
  ELSE IF ~HasPrefix(args[1], prefix) THEN FieldResult(UpdResult(FALSE, m, NilCmd, FALSE), km)
  ELSE AfterApply(m, applyStyleUpdate(km, TrimPrefix(args[1], prefix), Tail(args)))

\* handleKeyMapUpdate
handleKeyMapUpdate(prefix, km, m, inputcmd, args) ==
  CASE inputcmd = "keybind" ->
         IF Len(args) < 2 THEN FieldResult(UpdError(FALSE, m, "syntax: keybind"), km)
         ELSE IF ~HasPrefix(args[1], prefix)
           THEN FieldResult(UpdResult(FALSE, m, NilCmd, FALSE), km)
         ELSE AfterApply(m, applyKeyRebind(km, TrimPrefix(args[1], prefix), Tail(args)))
    [] inputcmd = "keyhelp" ->
         IF Len(args) < 3 THEN FieldResult(UpdError(FALSE, m, "syntax: keyhelp"), km)
         ELSE IF ~HasPrefix(args[1], prefix)
           THEN FieldResult(UpdResult(FALSE, m, NilCmd, FALSE), km)
         ELSE AfterApply(m, applyKeyNewHelp(km, TrimPrefix(args[1], prefix), args[2],
                                            Tail(Tail(args))))
    [] OTHER -> FieldResult(UpdResult(FALSE, m, NilCmd, FALSE), km)

\* StylesUpdater
StylesUpdater(prefix, km, m, inputCmd, args) ==
  handleStyleUpdate(prefix \o <<".">>, km, m, inputCmd, args)

\* KeyMapUpdater
KeyMapUpdater(prefix, km, m, inputCmd, args) ==
  handleKeyMapUpdate(prefix \o <<".">>, km, m, inputCmd, args)

\* The field updaters of the tests and their prefixes: two styles updaters
\* and a key map updater over the struct of the driver's field km.
FieldUpdaters == {"styles", "styles2", "keymap"}
PrefixOf(n) == CASE n = "styles" -> <<"p">> [] n = "styles2" -> <<"q">> [] n = "keymap" -> <<"k">>

\* The call of the field updater named n.
CallField(n, km, m, cmd, args) ==
  IF n = "keymap" THEN KeyMapUpdater(PrefixOf(n), km, m, cmd, args)
                  ELSE StylesUpdater(PrefixOf(n), km, m, cmd, args)

\* An Updater value: nil, one of the functions above, or the closure that
\* ChainUpdaters returns over the updaters in actual.
NilUpd == [kind |-> "nil", name |-> "", actual |-> <<>>]
BaseUpd(n) == [kind |-> "base", name |-> n, actual |-> <<>>]
ChainUpd(actual) == [kind |-> "chain", name |-> "", actual |-> actual]

UpdNames == {"updater", "upd1", "upd2", "styles"}

\* The call of the function named n. What a field updater returns depends
\* on the types of the fields of the struct only, which no call changes.
CallBase(n, m, cmd, args) ==
  CASE n = "updater" -> Updater(m, cmd, args)
    [] n = "upd1" -> upd1(m, cmd, args)
    [] n = "upd2" -> upd2(m, cmd, args)
    [] n \in FieldUpdaters -> CallField(n, StyledStruct, m, cmd, args).r

\* ChainUpdaters: the nil updaters are dropped, a single updater is returned
\* as it is.
ChainUpdaters(upds) ==
  LET actual == SelectSeq(upds, LAMBDA u : u.kind # "nil")
  IN IF Len(actual) = 1 THEN actual[1] ELSE ChainUpd(actual)

\* (mutant) the chain goes on after an error
ChainStops_SupportedOnly(r) == r.supported

\* The closure of ChainUpdaters: the test that ends its loop.
ChainStops(r) == r.supported \/ r.err

\* The call u(m, cmd, args...) of an Updater value; calls lists the names of
\* the functions invoked, in order.
RECURSIVE CallUpd(_, _, _, _)
RECURSIVE CallChain(_, _, _, _, _)
CallChain(actual, m, cmd, args, calls) ==
  IF actual = <<>>
    THEN [r |-> UpdResult(FALSE, NilModel, NilCmd, FALSE), calls |-> calls]
    ELSE LET one == CallUpd(Head(actual), m, cmd, args)
         IN IF ChainStops(one.r)
              THEN [r |-> one.r, calls |-> calls \o one.calls]
              ELSE CallChain(Tail(actual), m, cmd, args, calls \o one.calls)

CallUpd(u, m, cmd, args) ==
  IF u.kind = "base"
    THEN [r |-> CallBase(u.name, m, cmd, args), calls |-> <<u.name>>]
    ELSE CallChain(u.actual, m, cmd, args, <<>>)

\* The struct km after the call u(m, cmd, args...) of an Updater value.
RECURSIVE KmUpd(_, _, _, _, _)
RECURSIVE KmChain(_, _, _, _, _)
KmChain(actual, km, m, cmd, args) ==
  IF actual = <<>> THEN km
  ELSE IF ChainStops(CallUpd(Head(actual), m, cmd, args).r)
         THEN KmUpd(Head(actual), km, m, cmd, args)
         ELSE KmChain(Tail(actual), KmUpd(Head(actual), km, m, cmd, args), m, cmd, args)

KmUpd(u, km, m, cmd, args) ==
  IF u.kind = "base"
    THEN (IF u.name \in FieldUpdaters THEN CallField(u.name, km, m, cmd, args).km ELSE km)
    ELSE KmChain(u.actual, km, m, cmd, args)

\* No call of an Updater.
NoCall == [r |-> UpdResult(FALSE, NilModel, NilCmd, FALSE), calls |-> <<>>]

\* (mutant) the last updater registered replaces the earlier ones
WithUpdater_Replace(dr, u) == [dr EXCEPT !.upd = u, !.opts = Append(@, u)]

\* WithUpdater; opts lists the updaters registered so far (a ghost field).
WithUpdater(dr, u) ==
  [dr EXCEPT !.upd = ChainUpdaters(<<dr.upd, u>>), !.opts = Append(@, u)]

\* ------------------------------------------------------- driver operations
\* fmt.Fprintf(&d.result, ...): one output line of kind k.
Emit(dr, k, v) == [dr EXCEPT !.result = Append(@, [k |-> k, v |-> v])]

\* driver.trace.  The field mute is a ghost: it is set only in the twin of a
\* session that is given the same directives without their trace argument.
Trace(dr, en, s) == IF en /\ ~dr.mute THEN Emit(dr, "trace", s) ELSE dr

\* Queue entries for the tea.Cmds in names: the ghost fields are the instance
\* id, the input command it derives from (gen, 0 for Init), the composite it
\* is a child of (par, idx) and the place of handleRun that enqueued it (at).
MkCmds(names, gen, par, at, base) ==
  [i \in 1..Len(names) |->
     [c |-> names[i], id |-> base + i - 1, gen |-> gen, par |-> par,
      idx |-> i, at |-> at]]

\* No effect.
NoCmd == [c |-> NilCmd, id |-> 0, gen |-> 0, par |-> 0, idx |-> 0, at |-> ""]

\* Queue entry for a tea.Msg: gen as above, from is the effect that returned
\* it (NoCmd if none), src is "input", "auto" or "cmd".
MkMsg(msg, gen, from, src) == [msg |-> msg, gen |-> gen, from |-> from, src |-> src]

\* (mutant) the tea.Cmds are queued last to first
AddCmds_Reversed(dr, cs) ==
  LET keep == SelectSeq(cs, LAMBDA e : e.c # NilCmd)
  IN [dr EXCEPT !.cmds = @ \o [i \in 1..Len(keep) |-> keep[Len(keep) + 1 - i]]]

\* driver.addCmds
AddCmds(dr, cs) ==
  [dr EXCEPT !.cmds = @ \o SelectSeq(cs, LAMBDA e : e.c # NilCmd)]

\* (mutant) the tea.Msg goes to the head of the queue
AddMsg_Front(dr, e) ==
  IF e.msg.type = "nil" THEN dr ELSE [dr EXCEPT !.msgs = <<e>> \o @]

\* (mutant) a nil tea.Msg is queued like any other
AddMsg_Nil(dr, e) == [dr EXCEPT !.msgs = Append(@, e)]

\* driver.addMsg
AddMsg(dr, e) ==
  IF e.msg.type = "nil" THEN dr ELSE [dr EXCEPT !.msgs = Append(@, e)]

\* processTeaCmds, on entry
EnterCmds(dr, tr) ==
  IF Len(dr.cmds) > 0
    THEN Trace(dr, tr, "processing " \o ToString(Len(dr.cmds)) \o " cmds")
    ELSE dr

\* (mutant) the tea.Cmds of d.cmds go to the front of the work list
InputsMerge_Prepend(inputs, cmds) == cmds \o inputs

\* processTeaCmds, head of the loop: the work list after taking over d.cmds
InputsMerge(inputs, cmds) == inputs \o cmds

\* (mutant) a tea.sequenceMsg is not taken for a []tea.Cmd
IsCmdsType_BatchOnly(msg) == msg.type = "tea.BatchMsg"

\* rmsg.Type().ConvertibleTo(cmdsType)
IsCmdsType(msg) == msg.type \in {"tea.BatchMsg", "tea.sequenceMsg"}

\* processTeaCmds, after runTeaCmd returned msg for the effect c
Translate(dr, c, msg, tr, base) ==
  IF msg.type # "nil" /\ IsCmdsType(msg)
    THEN AddCmds(Trace(dr, tr, "expanded " \o ToString(Len(msg.cmds)) \o " commands"),
                 MkCmds(msg.cmds, c.gen, c.id, pc, base))
    ELSE AddMsg(Trace(dr, tr, "translated cmd: " \o msg.type),
                MkMsg(msg, c.gen, c, "cmd"))

\* (mutant) the timeout is reported whether or not tracing is enabled
RunTimeout_Always(dr, tr) == Emit(dr, "trace", "timeout waiting for command")

\* runTeaCmd, the ctx.Done() branch of the select
RunTimeout(dr, tr) == Trace(dr, tr, "timeout waiting for command")

\* (mutant) no case for tea.quitMsg
RenderedTypes_NoQuit ==
  {"tea.printLineMessage", "tea.WindowSizeMsg", "tea.execMsg",
   "tea.hideCursorMsg", "tea.enterAltScreenMsg", "tea.exitAltScreenMsg",
   "tea.enableMouseCellMotionMsg", "tea.enableMouseAllMotionMsg",
   "tea.disableMouseMsg"}

\* The types processTeaMsgs renders instead of passing them to Update.
RenderedTypes ==
  {"tea.printLineMessage", "tea.WindowSizeMsg", "tea.quitMsg", "tea.execMsg",
   "tea.hideCursorMsg", "tea.enterAltScreenMsg", "tea.exitAltScreenMsg",
   "tea.enableMouseCellMotionMsg", "tea.enableMouseAllMotionMsg",
   "tea.disableMouseMsg"}

\* (mutant) only tea.printLineMessage is rendered
IsRendered_PrintOnly(msg) == msg.type = "tea.printLineMessage"

\* processTeaMsgs, the cases of the type switch other than default
IsRendered(msg) == msg.type \in RenderedTypes

\* The line processTeaMsgs prints for a rendered type.
Render(msg) ==
  CASE msg.type = "tea.printLineMessage" -> "TEA PRINT: {" \o msg.v \o "}"
    [] msg.type = "tea.WindowSizeMsg" -> "TEA WINDOW SIZE: {" \o msg.v \o "}"
    [] msg.type = "tea.quitMsg" -> "TEA QUIT"
    [] msg.type = "tea.execMsg" -> "TEA EXEC"
    [] msg.type = "tea.hideCursorMsg" -> "TEA HIDE CURSOR"
    [] msg.type = "tea.enterAltScreenMsg" -> "TEA ENTER ALT"
    [] msg.type = "tea.exitAltScreenMsg" -> "TEA EXIT ALT"
    [] msg.type = "tea.enableMouseCellMotionMsg" -> "TEA ENABLE MOUSE CELL MOTION"
    [] msg.type = "tea.enableMouseAllMotionMsg" -> "TEA ENABLE MOUSE MOTION ALL"
    [] msg.type = "tea.disableMouseMsg" -> "TEA DISABLE MOUSE"
    [] OTHER -> ""

\* processTeaMsgs, on entry
EnterMsgs(dr, tr) ==
  IF Len(dr.msgs) > 0
    THEN Trace(dr, tr, "processing " \o ToString(Len(dr.msgs)) \o " messages")
    ELSE dr

\* (mutant) the tea.Cmd returned by Update is not queued
ProcessMsg_DropCmd(dr, e, tr, base) ==
  LET d1 == Trace(dr, tr, "msg " \o e.msg.type \o "{" \o e.msg.v \o "}")
  IN IF IsRendered(e.msg)
       THEN Emit(d1, "tea", Render(e.msg))
       ELSE [d1 EXCEPT !.m = Update(dr.m, e.msg).m]

\* (mutant) the model returned by Update is not kept
ProcessMsg_StaleModel(dr, e, tr, base) ==
  LET d1 == Trace(dr, tr, "msg " \o e.msg.type \o "{" \o e.msg.v \o "}")
      u == Update(dr.m, e.msg)
  IN IF IsRendered(e.msg)
       THEN Emit(d1, "tea", Render(e.msg))
       ELSE AddCmds(d1, MkCmds(<<u.cmd>>, e.gen, 0, pc, base))

\* processTeaMsgs, one iteration of the range loop, on the queue entry e
ProcessMsg(dr, e, tr, base) ==
  LET d1 == Trace(dr, tr, "msg " \o e.msg.type \o "{" \o e.msg.v \o "}")
      u == Update(dr.m, e.msg)
  IN IF IsRendered(e.msg)
       THEN Emit(d1, "tea", Render(e.msg))
       ELSE AddCmds([d1 EXCEPT !.m = u.m], MkCmds(<<u.cmd>>, e.gen, 0, pc, base))

\* No call of t.Fatalf.
NotFatal == ""

\* The markers of observeView (U+2424 and U+1F6C7 in the source).
Newline == "\n"
LfMarker == "<LF>"
NoEolMarker == "<NOEOL>"

\* strings.ReplaceAll(o, "\n", LfMarker + "\n")
RECURSIVE MarkNewlines(_)
MarkNewlines(o) ==
  IF o = <<>> THEN <<>>
  ELSE (IF Head(o) = Newline THEN <<LfMarker, Newline>> ELSE <<Head(o)>>)
         \o MarkNewlines(Tail(o))

\* (mutant) an empty view gets no marker
observeView_NonEmpty(o) ==
  LET o1 == MarkNewlines(o)
  IN IF Len(o1) # 0 /\ o1[Len(o1)] # Newline THEN Append(o1, NoEolMarker) ELSE o1

\* observeView, on the text o of m.View()
observeView(o) ==
  LET o1 == MarkNewlines(o)
  IN IF Len(o1) = 0 \/ o1[Len(o1)] # Newline THEN Append(o1, NoEolMarker) ELSE o1

\* What an Observer wrote and whether it returned an error.
Observed(text, err) == [text |-> text, err |-> err]

\* The call obs(&buf, d.m) of the Observer named obs: the three that
\* NewDriver registers and the one of TestObserver.
CallObserver(obs, dr) ==
  CASE obs = "observeView" -> Observed(observeView(ModelView(dr)), FALSE)
    [] obs = "observeDebug" ->
         IF HasDebug(dr) THEN Observed(<<"DEBUG SAYS HI">>, FALSE)
                         ELSE Observed(<<>>, TRUE)
    [] obs = "observeGoStruct" -> Observed(<<"pretty.Sprint: ">> \o ModelView(dr), FALSE)
    [] obs = "worldObserver" -> Observed(<<"world!", Newline>>, FALSE)

\* The cases of the switch of driver.Observe other than default.
PseudoObservers == {"msgs", "cmds"}

\* driver.Observe: the lines it returns and the message of t.Fatalf, if it is
\* called. A line an Observer wrote has the name of that Observer as k, its
\* text as v and the pieces of the text as w.
Observe(dr, what) ==
  LET head == <<[k |-> "observe", v |-> "-- " \o what \o ":"]>>
  IN CASE what = "msgs" ->
            [lines |-> head \o <<[k |-> "msgs",
                                  v |-> "msg queue sz: " \o ToString(Len(dr.msgs))]>>,
             fatal |-> NotFatal]
       [] what = "cmds" ->
            [lines |-> head \o <<[k |-> "cmds",
                                  v |-> "command queue sz: " \o ToString(Len(dr.cmds))]>>,
             fatal |-> NotFatal]
       [] OTHER ->
            IF what \notin DOMAIN dr.observers
              THEN [lines |-> <<>>, fatal |-> "unsupported observer " \o what]
              ELSE LET r == CallObserver(dr.observers[what], dr)
                   IN IF r.err
                        THEN [lines |-> <<>>, fatal |-> "observing " \o what]
                        ELSE [lines |-> head \o <<[k |-> dr.observers[what],
                                                   v |-> Text(r.text),
                                                   w |-> r.text]>>,
                              fatal |-> NotFatal]

\* doObserve of handleRun, over the observers obs still to run: the driver
\* with their output appended, up to the first that is fatal
RECURSIVE ObserveAll(_, _)
ObserveAll(dr, obs) ==
  IF obs = <<>> THEN [d |-> dr, fatal |-> NotFatal]
  ELSE LET r == Observe(dr, Head(obs))
       IN IF r.fatal # NotFatal
            THEN [d |-> dr, fatal |-> r.fatal]
            ELSE ObserveAll([dr EXCEPT !.result = @ \o r.lines], Tail(obs))

\* doObserve of handleRun
DoObserve(dr) == ObserveAll(dr, dr.observe).d
ObserveFatal(dr) == ObserveAll(dr, dr.observe).fatal

\* ------------------------------------------------------- the input encoder
\* A word of an input command is a sequence of one-character strings.
RECURSIVE Str(_)
Str(w) == IF w = <<>> THEN "" ELSE Head(w) \o Str(Tail(w))

Digits == <<"0", "1", "2", "3", "4", "5", "6", "7", "8", "9">>
IsDigit(c) == \E i \in 1..10 : Digits[i] = c
DigitVal(c) == (CHOOSE i \in 1..10 : Digits[i] = c) - 1

RECURSIVE AtoiDigits(_, _)
AtoiDigits(w, acc) ==
  IF w = <<>> THEN acc ELSE AtoiDigits(Tail(w), 10 * acc + DigitVal(Head(w)))

\* (mutant) no sign is accepted
Atoi_Unsigned(w) ==
  IF w = <<>> \/ \E i \in 1..Len(w) : ~IsDigit(w[i])
    THEN [ok |-> FALSE, v |-> 0]
    ELSE [ok |-> TRUE, v |-> AtoiDigits(w, 0)]

\* strconv.Atoi: an optional sign followed by at least one decimal digit
Atoi(w) ==
  LET signed == w # <<>> /\ Head(w) \in {"+", "-"}
      ds == IF signed THEN Tail(w) ELSE w
  IN IF ds = <<>> \/ \E i \in 1..Len(ds) : ~IsDigit(ds[i])
       THEN [ok |-> FALSE, v |-> 0]
       ELSE [ok |-> TRUE,
             v |-> IF signed /\ Head(w) = "-" THEN 0 - AtoiDigits(ds, 0)
                                              ELSE AtoiDigits(ds, 0)]

AltPrefix == <<"a", "l", "t", "+">>

\* The runes that UTF-8 encodes in two bytes (those of the model).
TwoByteRunes == {"é"}

\* len(s) of a Go string: its length in bytes.
RECURSIVE ByteLen(_)
ByteLen(w) ==
  IF w = <<>> THEN 0
  ELSE (IF Head(w) \in TwoByteRunes THEN 2 ELSE 1) + ByteLen(Tail(w))

\* The names of allKeys (a part of the tea.KeyType names).
allKeys == {"enter", "tab", "esc", "up", "down", "backspace", "ctrl+c", " "}

\* typeIn, the strings.Builder loop: the arguments joined by single spaces
RECURSIVE JoinArgs(_)
JoinArgs(args) ==
  IF args = <<>> THEN <<>>
  ELSE IF Len(args) = 1 THEN args[1]
  ELSE args[1] \o <<" ">> \o JoinArgs(Tail(args))

RECURSIVE AddRunes(_, _, _, _)
AddRunes(dr, rs, alt, gen) ==
  IF rs = <<>> THEN dr
  ELSE AddRunes(AddMsg(dr, MkMsg(KeyMsg("runes", Head(rs), alt), gen, NoCmd, "input")),
                Tail(rs), alt, gen)

\* (mutant) only the first argument is typed
typeIn_FirstArg(dr, args, alt, gen) ==
  AddRunes(dr, IF args = <<>> THEN <<>> ELSE args[1], alt, gen)

\* driver.typeIn
typeIn(dr, args, alt, gen) == AddRunes(dr, JoinArgs(args), alt, gen)

\* The outcome of ApplyTextCommand: the driver after the command, the tea.Cmd
\* it returns and the t.Fatalf message, if any (the driver is then as it was
\* when t.Fatalf was called).
Applied(dr, cmd) == [d |-> dr, cmd |-> cmd, fatal |-> NotFatal]
Fatalf(dr, s) == [d |-> dr, cmd |-> NilCmd, fatal |-> s]

\* driver.assertArgc
ArgcError(args, expected) ==
  "expected " \o ToString(expected) \o " args, got " \o ToString(Len(args))

\* driver.getInt
AtoiError(w) == "strconv.Atoi: parsing " \o Str(w) \o ": invalid syntax"

\* ApplyTextCommand, case "resize"
applyResize(dr, args, gen) ==
  IF Len(args) # 2 THEN Fatalf(dr, ArgcError(args, 2))
  ELSE IF ~Atoi(args[1]).ok THEN Fatalf(dr, AtoiError(args[1]))
  ELSE IF ~Atoi(args[2]).ok THEN Fatalf(dr, AtoiError(args[2]))
  ELSE Applied(AddMsg(dr, MkMsg(WindowSizeMsg(Atoi(args[1]).v, Atoi(args[2]).v),
                                gen, NoCmd, "input")), NilCmd)

\* ApplyTextCommand, case "key"
applyKey(dr, args, gen) ==
  IF Len(args) # 1 THEN Fatalf(dr, ArgcError(args, 1))
  ELSE LET alt == HasPrefix(args[1], AltPrefix)
           keyName == TrimPrefix(args[1], AltPrefix)
           found == Str(keyName) \in allKeys
       IN IF ~found /\ ByteLen(keyName) # 1
            THEN Fatalf(dr, "unknown key: " \o Str(keyName))
          ELSE IF found
            THEN Applied(AddMsg(dr, MkMsg(KeyMsg(Str(keyName), "", alt),
                                          gen, NoCmd, "input")), NilCmd)
          ELSE Applied(typeIn(dr, <<keyName>>, alt, gen), NilCmd)

\* (mutant) the enter key comes first
applyEnter_First(dr, args, gen) ==
  Applied(typeIn(AddMsg(dr, MkMsg(KeyMsg("enter", "", FALSE), gen, NoCmd, "input")),
                 args, FALSE, gen), NilCmd)

\* ApplyTextCommand, case "enter"
applyEnter(dr, args, gen) ==
  Applied(AddMsg(typeIn(dr, args, FALSE, gen),
                 MkMsg(KeyMsg("enter", "", FALSE), gen, NoCmd, "input")), NilCmd)

\* The input commands ApplyTextCommand has a case for.
BuiltIn == {"resize", "key", "type", "enter"}

\* ApplyTextCommand, the default case: the call of d.upd, if there is one
UpdCall(dr, cmd, args) ==
  IF cmd \notin BuiltIn /\ dr.upd.kind # "nil"
    THEN CallUpd(dr.upd, dr.m, cmd, args)
    ELSE NoCall

\* (mutant) a command that no updater supports is skipped
applyUpdater_Lenient(dr, cmd, args) ==
  IF dr.upd.kind # "nil"
    THEN LET u == UpdCall(dr, cmd, args).r
         IN IF u.err THEN Fatalf(dr, "updater error")
            ELSE IF ~u.supported THEN Applied(dr, NilCmd)
            ELSE Applied([dr EXCEPT !.m = u.m], u.cmd)
    ELSE Fatalf(dr, "unknown command " \o cmd \o ", and no Updater defined")

\* (mutant) the error of the updater is not looked at
applyUpdater_NoErrCheck(dr, cmd, args) ==
  IF dr.upd.kind # "nil"
    THEN LET u == UpdCall(dr, cmd, args).r
             dk == [dr EXCEPT !.km = KmUpd(dr.upd, dr.km, dr.m, cmd, args)]
         IN IF ~u.supported THEN Fatalf(dk, "unknown command " \o cmd)
            ELSE Applied([dk EXCEPT !.m = u.m], u.cmd)
    ELSE Fatalf(dr, "unknown command " \o cmd \o ", and no Updater defined")

\* (mutant) the tea.Cmd of the updater is not returned
applyUpdater_DropCmd(dr, cmd, args) ==
  IF dr.upd.kind # "nil"
    THEN LET u == UpdCall(dr, cmd, args).r
             dk == [dr EXCEPT !.km = KmUpd(dr.upd, dr.km, dr.m, cmd, args)]
         IN IF u.err THEN Fatalf(dk, "updater error")
            ELSE IF ~u.supported THEN Fatalf(dk, "unknown command " \o cmd)
            ELSE Applied([dk EXCEPT !.m = u.m], NilCmd)
    ELSE Fatalf(dr, "unknown command " \o cmd \o ", and no Updater defined")

\* ApplyTextCommand, the default case
applyUpdater(dr, cmd, args) ==
  IF dr.upd.kind # "nil"
    THEN LET u == UpdCall(dr, cmd, args).r
             dk == [dr EXCEPT !.km = KmUpd(dr.upd, dr.km, dr.m, cmd, args)]
         IN IF u.err THEN Fatalf(dk, "updater error")
            ELSE IF ~u.supported THEN Fatalf(dk, "unknown command " \o cmd)
            ELSE Applied([dk EXCEPT !.m = u.m], u.cmd)
    ELSE Fatalf(dr, "unknown command " \o cmd \o ", and no Updater defined")

\* driver.ApplyTextCommand
ApplyTextCommand(dr, cmd, args, gen) ==
  CASE cmd = "resize" -> applyResize(dr, args, gen)
    [] cmd = "key" -> applyKey(dr, args, gen)
    [] cmd = "type" -> Applied(typeIn(dr, args, FALSE, gen), NilCmd)
    [] cmd = "enter" -> applyEnter(dr, args, gen)
    [] OTHER -> applyUpdater(dr, cmd, args)

\* --------------------------------------------------------- the directives
Word1(c) == <<c>>
InputCmds ==
  { [cmd |-> "type", args |-> <<Word1("a")>>],
    [cmd |-> "noopcmd", args |-> <<>>] }

\* The bodies of a run directive: at most MaxInputs input commands.
Bodies == UNION { [1..n -> InputCmds] : n \in 0..MaxInputs }

\* The values of set cmd_timeout=...
TimeoutVals == {LongTimeout}

\* NewDriver with the options WithAutoInitDisabled / WithWindowSize, before
\* any WithUpdater option
NewDriver(noInit, autoSize) ==
  [m |-> 0, cmds |-> <<>>, msgs |-> <<>>, inputs |-> <<>>, result |-> <<>>,
   cmdTimeout |-> defaultCmdTimeout, startDone |-> FALSE,
   disableAutoInit |-> noInit, autoSize |-> autoSize,
   width |-> IF autoSize THEN WinWidth ELSE 0,
   height |-> IF autoSize THEN WinHeight ELSE 0,
   upd |-> NilUpd, opts |-> <<>>,
   mt |-> "intModel", vt |-> <<>>,
   km |-> StyledStruct,
   observers |-> [n \in {"view", "debug", "gostruct"} |->
                    CASE n = "view" -> "observeView"
                      [] n = "debug" -> "observeDebug"
                      [] n = "gostruct" -> "observeGoStruct"],
   observe |-> <<>>, mute |-> FALSE]

\* WithObserver
WithObserver(dr, what, obs) ==
  [dr EXCEPT !.observers = [n \in DOMAIN dr.observers \cup {what} |->
                              IF n = what THEN obs ELSE dr.observers[n]]]

\* The options WithUpdater(u), applied in order.
RECURSIVE WithUpdaters(_, _)
WithUpdaters(dr, opts) ==
  IF opts = <<>> THEN dr ELSE WithUpdaters(WithUpdater(dr, Head(opts)), Tail(opts))

Init ==
  /\ \E noInit \in BOOLEAN, autoSize \in BOOLEAN :
        /\ d = WithUpdater(NewDriver(noInit, autoSize), BaseUpd("updater"))
        /\ tw = d
  /\ pc = "idle" /\ ph = "-"
  /\ body = <<>> /\ traceEnabled = FALSE
  /\ traceArg \in BOOLEAN
  /\ cur = NoCmd /\ mi = 1
  /\ tasks = {}
  /\ out = [dir |-> "", text |-> <<>>]
  /\ nextId = 1 /\ ncmd = 0 /\ nruns = 0 /\ nsets = 0 /\ initCalls = 0
  /\ execLog = <<>> /\ evLog = <<>> /\ updLog = <<>>
  /\ nfatal = 0 /\ lineNo = 0 /\ timedOut = {} /\ toRun = 0
  /\ ulog = NoCall

\* The same step of the driver on d and on its twin.
Both(F(_)) == d' = F(d) /\ tw' = F(tw)

\* The entries a step appended to d.msgs.
NewMsgs(old, new) == SubSeq(new.msgs, Len(old.msgs) + 1, Len(new.msgs))

\* (mutant) startDone is not consulted
CallsInit_EveryRun(dr) == ~dr.disableAutoInit

\* handleRun: whether this run directive calls m.Init()
CallsInit(dr) == ~dr.startDone /\ ~dr.disableAutoInit

\* (mutant) a run directive starts with an empty queue of tea.Cmds
HandleRunStart_ClearCmds(dr, tr, base) ==
  LET r0 == [dr EXCEPT !.result = <<>>, !.observe = <<"view">>, !.cmds = <<>>]
  IN IF CallsInit(dr)
       THEN EnterCmds(AddCmds(Trace(r0, tr, "calling Init"),
                              MkCmds(<<ModelInit>>, 0, 0, "init", base)), tr)
       ELSE r0

\* handleRun up to the call of processTeaCmds for Init (or, with startDone
\* set or auto-init disabled, up to the next statement).
HandleRunStart(dr, tr, base) ==
  LET r0 == [dr EXCEPT !.result = <<>>, !.observe = <<"view">>]
  IN IF CallsInit(dr)
       THEN EnterCmds(AddCmds(Trace(r0, tr, "calling Init"),
                              MkCmds(<<ModelInit>>, 0, 0, "init", base)), tr)
       ELSE r0

\* RunOneTest, directive run: tr is td.HasArg("trace"), lines the input
\* commands of td.Input.  The run directives of a session either all carry
\* the trace argument or none does (traceArg).
HandleRun(tr, lines) ==
  /\ pc = "idle"
  /\ nruns + nsets < MaxDirectives
  /\ ncmd + Len(lines) <= MaxInputs
  /\ Both(LAMBDA dr : HandleRunStart(dr, tr, nextId))
  /\ traceEnabled' = tr
  /\ body' = lines
  /\ nruns' = nruns + 1
  /\ IF CallsInit(d)
       THEN pc' = "init" /\ ph' = "cmds" /\ initCalls' = initCalls + 1
            /\ nextId' = nextId + 1
       ELSE pc' = (IF d.startDone THEN "loop" ELSE "start") /\ ph' = "-"
            /\ UNCHANGED <<initCalls, nextId>>
  /\ out' = [dir |-> "", text |-> <<>>]
  /\ lineNo' = 0 /\ toRun' = 0
  /\ UNCHANGED <<traceArg, cur, mi, tasks, ncmd, nsets, execLog, evLog, updLog,
                 nfatal, timedOut>>
  /\ UNCHANGED ulog

\* (mutant) startDone is not set
AutoSize_NoFlag(dr) ==
  IF dr.autoSize
    THEN AddMsg(dr, MkMsg(WindowSizeMsg(dr.width, dr.height), 0, NoCmd, "auto"))
    ELSE dr

\* handleRun, the end of the start-up block: the WindowSizeMsg and startDone
AutoSize(dr) ==
  LET r == IF dr.autoSize
             THEN AddMsg(dr, MkMsg(WindowSizeMsg(dr.width, dr.height), 0, NoCmd, "auto"))
             ELSE dr
  IN [r EXCEPT !.startDone = TRUE]

StartDone ==
  /\ pc = "start"
  /\ Both(AutoSize)
  /\ pc' = "loop"
  /\ evLog' = evLog \o NewMsgs(d, d')
  /\ UNCHANGED <<ph, body, traceArg, traceEnabled, cur, mi, tasks, out, nextId, ncmd,
                 nruns, nsets, initCalls, execLog, updLog, nfatal, lineNo, timedOut, toRun>>
  /\ UNCHANGED ulog

\* handleRun, the head of the loop over the input commands, up to the call
\* of processTeaMsgs
LineBegin ==
  /\ pc = "loop" /\ body # <<>>
  /\ Both(LAMBDA dr : EnterMsgs(Trace(dr, traceEnabled, "before " \o Head(body).cmd),
                                traceEnabled))
  /\ pc' = "lineMsgs" /\ ph' = "msgs" /\ mi' = 1
  /\ UNCHANGED <<body, traceArg, traceEnabled, cur, tasks, out, nextId, ncmd, nruns, nsets,
                 initCalls, execLog, evLog, updLog, nfatal, lineNo, timedOut, toRun>>
  /\ UNCHANGED ulog

\* handleRun after the loop, up to the first processTeaMsgs of the last round
Finish ==
  /\ pc = "loop" /\ body = <<>>
  /\ Both(LAMBDA dr :
        EnterMsgs(IF traceEnabled /\ ~dr.mute
                    THEN DoObserve(Trace(dr, traceEnabled, "before finish"))
                    ELSE dr, traceEnabled))
  /\ pc' = "fin1" /\ ph' = "msgs" /\ mi' = 1
  /\ UNCHANGED <<body, traceArg, traceEnabled, cur, tasks, out, nextId, ncmd, nruns, nsets,
                 initCalls, execLog, evLog, updLog, nfatal, lineNo, timedOut, toRun>>
  /\ UNCHANGED ulog

\* processTeaMsgs, one iteration of the range loop
MsgStep ==
  /\ ph = "msgs" /\ mi <= Len(d.msgs)
  /\ d' = ProcessMsg(d, d.msgs[mi], traceEnabled, nextId)
  /\ tw' = ProcessMsg(tw, tw.msgs[mi], traceEnabled, nextId)
  /\ mi' = mi + 1
  /\ IF IsRendered(d.msgs[mi].msg)
       THEN UNCHANGED <<nextId, updLog>>
       ELSE nextId' = nextId + 1 /\ updLog' = Append(updLog, d.msgs[mi])
  /\ UNCHANGED <<pc, ph, body, traceArg, traceEnabled, cur, tasks, out, ncmd, nruns, nsets,
                 initCalls, execLog, evLog, nfatal, lineNo, timedOut, toRun>>
  /\ UNCHANGED ulog

\* (mutant) the processed messages are left in the queue
TruncMsgs_Keep(dr) == dr

\* processTeaMsgs, after the loop: d.msgs = d.msgs[:0]
TruncMsgs(dr) == [dr EXCEPT !.msgs = <<>>]

\* handleRun, from the end of the last processTeaMsgs to the return
AtEnd(dr, tr) == DoObserve(Trace(TruncMsgs(dr), tr, "at end"))
AtEndFatal(dr, tr) == ObserveFatal(Trace(TruncMsgs(dr), tr, "at end"))

\* processTeaMsgs returns to its call site in handleRun
MsgsReturn ==
  /\ ph = "msgs" /\ mi > Len(d.msgs)
  /\ CASE pc = "lineMsgs" ->
            /\ Both(TruncMsgs)
            /\ pc' = "apply" /\ ph' = "-"
            /\ UNCHANGED out
       [] pc = "fin1" ->
            /\ Both(LAMBDA dr : EnterCmds(TruncMsgs(dr), traceEnabled))
            /\ pc' = "fin2" /\ ph' = "cmds"
            /\ UNCHANGED out
       [] pc = "fin3" ->
            /\ pc' = "idle" /\ ph' = "-"
            /\ IF AtEndFatal(d, traceEnabled) # NotFatal
                 THEN /\ Both(LAMBDA dr : Trace(TruncMsgs(dr), traceEnabled, "at end"))
                      /\ out' = [dir |-> "fatal",
                                 text |-> <<[k |-> "fatal",
                                            v |-> AtEndFatal(d, traceEnabled)]>>]
                 ELSE /\ Both(LAMBDA dr : AtEnd(dr, traceEnabled))
                      /\ out' = [dir |-> "run", text |-> d'.result]
  /\ nfatal' = (IF pc = "fin3" /\ AtEndFatal(d, traceEnabled) # NotFatal
                 THEN nfatal + 1 ELSE nfatal)
  /\ UNCHANGED <<body, traceArg, traceEnabled, cur, mi, tasks, nextId, ncmd, nruns, nsets,
                 initCalls, execLog, evLog, updLog, lineNo, timedOut, toRun>>
  /\ UNCHANGED ulog

\* handleRun, the loop body from ApplyTextCommand to the call of
\* processTeaCmds
ApplyStep(dr, line, tr, gen, base) ==
  LET r == ApplyTextCommand(dr, line.cmd, line.args, gen)
  IN EnterCmds(AddCmds(r.d, MkCmds(<<r.cmd>>, gen, 0, "apply", base)), tr)

ApplyLine ==
  /\ pc = "apply"
  /\ LET line == Head(body)
         r == ApplyTextCommand(d, line.cmd, line.args, ncmd + 1)
     IN /\ ncmd' = ncmd + 1
        /\ lineNo' = lineNo + 1
        /\ IF r.fatal # NotFatal
             THEN /\ pc' = "idle" /\ ph' = "-"
                  /\ body' = <<>>
                  /\ out' = [dir |-> "fatal", text |-> <<[k |-> "fatal", v |-> r.fatal]>>]
                  /\ nfatal' = nfatal + 1
                  /\ UNCHANGED <<d, tw, nextId, evLog>>
             ELSE /\ Both(LAMBDA dr : ApplyStep(dr, line, traceEnabled, ncmd + 1, nextId))
                  /\ pc' = "lineCmds" /\ ph' = "cmds"
                  /\ nextId' = nextId + 1
                  /\ evLog' = evLog \o NewMsgs(d, d')
                  /\ UNCHANGED <<body, out, nfatal>>
        /\ ulog' = UpdCall(d, line.cmd, line.args)
  /\ UNCHANGED <<traceArg, traceEnabled, cur, mi, tasks, nruns, nsets, initCalls, execLog,
                 updLog, timedOut, toRun>>

\* (mutant) d.cmds is not emptied when the work list takes it over
TakeCmd_KeepQueue(dr) ==
  LET work == InputsMerge(dr.inputs, dr.cmds)
  IN [dr EXCEPT !.inputs = Tail(work)]

\* processTeaCmds, head of the loop, on a non-empty work list: take the first
\* tea.Cmd and start its goroutine (runTeaCmd up to the select)
TakeCmd(dr) ==
  LET work == InputsMerge(dr.inputs, dr.cmds)
  IN [dr EXCEPT !.inputs = Tail(work), !.cmds = <<>>]

CmdStart ==
  /\ ph = "cmds"
  /\ InputsMerge(d.inputs, d.cmds) # <<>>
  /\ cur' = Head(InputsMerge(d.inputs, d.cmds))
  /\ Both(TakeCmd)
  /\ tasks' = tasks \cup {[id |-> cur'.id, c |-> cur'.c, st |-> "running", waited |-> TRUE,
                            tmo |-> d.cmdTimeout]}
  /\ execLog' = Append(execLog, cur')
  /\ ph' = "wait"
  /\ UNCHANGED <<pc, body, traceArg, traceEnabled, mi, out, nextId, ncmd, nruns, nsets,
                 initCalls, evLog, updLog, nfatal, lineNo, timedOut, toRun>>
  /\ UNCHANGED ulog

\* processTeaCmds breaks out of the loop (the local inputs goes away)
LeaveCmds(dr) == [dr EXCEPT !.inputs = <<>>]

\* (mutant) the intermediate observation of a traced run discards the
\* tea.Msgs that are queued
AfterLine_Discard(dr, line, tr) ==
  IF tr /\ ~dr.mute
    THEN DoObserve(Trace([LeaveCmds(dr) EXCEPT !.msgs = <<>>], tr, "after " \o line.cmd))
    ELSE LeaveCmds(dr)

\* handleRun, the loop body after processTeaCmds
AfterLine(dr, line, tr) ==
  IF tr /\ ~dr.mute THEN DoObserve(Trace(LeaveCmds(dr), tr, "after " \o line.cmd))
        ELSE LeaveCmds(dr)

\* processTeaCmds returns to its call site in handleRun
CmdsReturn ==
  /\ ph = "cmds"
  /\ InputsMerge(d.inputs, d.cmds) = <<>>
  /\ CASE pc = "init" ->
            /\ Both(LeaveCmds)
            /\ pc' = "start" /\ ph' = "-"
            /\ UNCHANGED <<body, mi>>
       [] pc = "lineCmds" ->
            /\ Both(LAMBDA dr : AfterLine(dr, Head(body), traceEnabled))
            /\ pc' = "loop" /\ ph' = "-"
            /\ body' = Tail(body)
            /\ UNCHANGED mi
       [] pc = "fin2" ->
            /\ Both(LAMBDA dr : EnterMsgs(LeaveCmds(dr), traceEnabled))
            /\ pc' = "fin3" /\ ph' = "msgs" /\ mi' = 1
            /\ UNCHANGED body
  /\ UNCHANGED <<traceArg, traceEnabled, cur, tasks, out, nextId, ncmd, nruns, nsets,
                 initCalls, execLog, evLog, updLog, nfatal, lineNo, timedOut, toRun>>
  /\ UNCHANGED ulog

\* (mutant) no effect ever returns
CanSend_Never(t, timeout) == FALSE

\* (mutant) a channel without a slot: a send needs the driver to receive
CanSend_Unbuffered(t, timeout) ==
  /\ t.st = "running"
  /\ CmdTable[t.c].returns
  /\ t.waited /\ CmdTable[t.c].dur <= timeout

\* The goroutine of runTeaCmd: msg <- cmd().  While the driver waits for it,
\* it can only finish within the timeout.
CanSend(t, timeout) ==
  /\ t.st = "running"
  /\ CmdTable[t.c].returns
  /\ t.waited => CmdTable[t.c].dur <= timeout

TaskSend(t) ==
  /\ t \in tasks
  /\ CanSend(t, t.tmo)
  /\ tasks' = (tasks \ {t}) \cup {[t EXCEPT !.st = "sent"]}
  /\ UNCHANGED <<d, tw, pc, ph, body, traceArg, traceEnabled, cur, mi, out, nextId, ncmd,
                 nruns, nsets, initCalls, execLog, evLog, updLog, nfatal, lineNo, timedOut, toRun>>
  /\ UNCHANGED ulog

\* (mutant) one channel shared by all the calls of runTeaCmd
Receivable_Shared(ts, c) == {t \in ts : t.st = "sent"}

\* runTeaCmd, case res = <-msg: the tasks whose channel the select reads
Receivable(ts, c) == {t \in ts : t.id = c.id /\ t.st = "sent"}

\* The ids the expansion of msg consumes.
IdsUsed(msg) == IF msg.type # "nil" /\ IsCmdsType(msg) THEN Len(msg.cmds) ELSE 0

CmdRecv ==
  /\ ph = "wait"
  /\ \E t \in Receivable(tasks, cur) :
       LET res == CmdTable[t.c].res
           src == [cur EXCEPT !.id = t.id]
       IN /\ Both(LAMBDA dr : Translate(dr, src, res, traceEnabled, nextId))
          /\ tasks' = tasks \ {t}
          /\ nextId' = nextId + IdsUsed(res)
  /\ ph' = "cmds"
  /\ evLog' = evLog \o NewMsgs(d, d')
  /\ UNCHANGED <<pc, body, traceArg, traceEnabled, cur, mi, out, ncmd, nruns, nsets,
                 initCalls, execLog, updLog, nfatal, lineNo, timedOut, toRun>>
  /\ UNCHANGED ulog

\* (mutant) a wait without a timer
TimerFires_Never(c, timeout) == FALSE

\* runTeaCmd, case <-ctx.Done(): the timer of context.WithTimeout fires
TimerFires(c, timeout) == ~CmdTable[c].returns \/ CmdTable[c].dur >= timeout

\* (mutant) the driver goes on reading the channel of the task
Abandon_Not(t) == t

\* runTeaCmd returns on ctx.Done(): its goroutine goes on, and nothing
\* receives from its channel msg any more
Abandon(t) == [t EXCEPT !.waited = FALSE]

CmdTimeout ==
  /\ ph = "wait"
  /\ \E t \in tasks : t.id = cur.id /\ TimerFires(cur.c, t.tmo)
  /\ d' = Translate(RunTimeout(d, traceEnabled), cur, NilMsg, traceEnabled, nextId)
  /\ tw' = Translate(tw, cur, NilMsg, traceEnabled, nextId)
  /\ tasks' = {IF t.id = cur.id THEN Abandon(t) ELSE t : t \in tasks}
  /\ ph' = "cmds"
  /\ timedOut' = timedOut \cup {cur.id}
  /\ toRun' = toRun + 1
  /\ evLog' = evLog \o NewMsgs(d, d')
  /\ UNCHANGED <<pc, body, traceArg, traceEnabled, cur, mi, out, nextId, ncmd, nruns, nsets,
                 initCalls, execLog, updLog, nfatal, lineNo>>
  /\ UNCHANGED ulog

\* (mutant) the value is reported but not stored
SetTimeout_Ignored(dr, v) == dr

\* handleSet, case "cmd_timeout": d.cmdTimeout = tm
SetTimeout(dr, v) == [dr EXCEPT !.cmdTimeout = v]

\* handleSet for set cmd_timeout=v
HandleSet(v) ==
  /\ pc = "idle"
  /\ nruns + nsets < MaxDirectives
  /\ Both(LAMBDA dr : SetTimeout(dr, v))
  /\ out' = [dir |-> "set",
             text |-> <<[k |-> "set", v |-> "cmd_timeout: " \o ToString(v) \o "ms"]>>]
  /\ nsets' = nsets + 1
  /\ UNCHANGED <<pc, ph, body, traceArg, traceEnabled, cur, mi, tasks, nextId, ncmd, nruns,
                 initCalls, execLog, evLog, updLog, nfatal, lineNo, timedOut, toRun>>
  /\ UNCHANGED ulog

\* handleSet for reset cmd_timeout
HandleReset ==
  /\ pc = "idle"
  /\ nruns + nsets < MaxDirectives
  /\ Both(LAMBDA dr : SetTimeout(dr, defaultCmdTimeout))
  /\ out' = [dir |-> "reset", text |-> <<[k |-> "set", v |-> "ok"]>>]
  /\ nsets' = nsets + 1
  /\ UNCHANGED <<pc, ph, body, traceArg, traceEnabled, cur, mi, tasks, nextId, ncmd, nruns,
                 initCalls, execLog, evLog, updLog, nfatal, lineNo, timedOut, toRun>>
  /\ UNCHANGED ulog

\* A value of a directive argument is a sequence of pieces: decimal digits
\* and unit names.  time.ParseDuration on such a value: at least one digit
\* followed by one unit (signs, fractions and sums of terms are not among the
\* values of the model); the duration is in milliseconds.
DurationUnits == [ms |-> 1, s |-> 1000]
ParseDuration(w) ==
  LET n == Len(w)
  IN IF n >= 2 /\ w[n] \in DOMAIN DurationUnits /\ \A i \in 1..(n - 1) : IsDigit(w[i])
       THEN [ok |-> TRUE, v |-> AtoiDigits(SubSeq(w, 1, n - 1), 0) * DurationUnits[w[n]]]
       ELSE [ok |-> FALSE, v |-> 0]

\* Duration.String() of a duration of less than one second.
RECURSIVE Itoa(_)
Itoa(n) == IF n < 10 THEN <<Digits[n + 1]>> ELSE Itoa(n \div 10) \o <<Digits[(n % 10) + 1]>>
DurationString(v) == Itoa(v) \o <<"ms">>

\* (mutant) the parsed value is stored before the error is looked at
handleSet_StoreFirst(dr, verb, args) ==
  LET reset == verb = "reset"
  IN IF Len(args) # 1 \/ (~reset /\ Len(args[1].vals) # 1) \/ (reset /\ Len(args[1].vals) # 0)
       THEN Fatalf(dr, "invalid syntax")
       ELSE LET key == args[1].key
                val == IF reset THEN <<>> ELSE args[1].vals[1]
            IN IF key = "cmd_timeout"
                 THEN LET tm == ParseDuration(IF reset THEN DurationString(defaultCmdTimeout)
                                                       ELSE val)
                      IN IF ~tm.ok THEN Fatalf(SetTimeout(dr, tm.v), "invalid timeout value")
                         ELSE [d |-> SetTimeout(dr, tm.v),
                               cmd |-> IF reset THEN "ok"
                                       ELSE key \o ": " \o Str(DurationString(tm.v)),
                               fatal |-> NotFatal]
                 ELSE Fatalf(dr, "unknown option " \o key)

\* driver.handleSet on the directive verb (set or reset) with the arguments
\* args, each a key and its values: the driver, the text returned (cmd) and
\* the message of t.Fatalf, if any.
handleSet(dr, verb, args) ==
  LET reset == verb = "reset"
  IN IF Len(args) # 1 \/ (~reset /\ Len(args[1].vals) # 1) \/ (reset /\ Len(args[1].vals) # 0)
       THEN Fatalf(dr, "invalid syntax")
       ELSE LET key == args[1].key
                val == IF reset THEN <<>> ELSE args[1].vals[1]
            IN IF key = "cmd_timeout"
                 THEN LET tm == ParseDuration(IF reset THEN DurationString(defaultCmdTimeout)
                                                       ELSE val)
                      IN IF ~tm.ok THEN Fatalf(dr, "invalid timeout value")
                         ELSE [d |-> SetTimeout(dr, tm.v),
                               cmd |-> IF reset THEN "ok"
                                       ELSE key \o ": " \o Str(DurationString(tm.v)),
                               fatal |-> NotFatal]
                 ELSE Fatalf(dr, "unknown option " \o key)

\* RunOneTest for a set or reset directive with any arguments
HandleSetArgs(verb, args) ==
  /\ pc = "idle"
  /\ nruns + nsets < MaxDirectives
  /\ LET r == handleSet(d, verb, args)
     IN /\ d' = r.d
        /\ tw' = handleSet(tw, verb, args).d
        /\ out' = IF r.fatal # NotFatal
                    THEN [dir |-> "fatal", text |-> <<[k |-> "fatal", v |-> r.fatal]>>]
                    ELSE [dir |-> verb, text |-> <<[k |-> "set", v |-> r.cmd]>>]
  /\ nsets' = nsets + 1
  /\ UNCHANGED <<pc, ph, body, traceArg, traceEnabled, cur, mi, tasks, nextId, ncmd, nruns,
                 initCalls, execLog, evLog, updLog, nfatal, lineNo, timedOut, toRun>>
  /\ UNCHANGED ulog

\* The directives RunOneTest has no case for.
OtherDirectives == {"observe", "quit"}

\* (mutant) the driver starts over
Unrecognized_Restart(dr) == [dr EXCEPT !.startDone = FALSE, !.msgs = <<>>, !.cmds = <<>>]

\* RunOneTest, the default case, up to t.Fatalf: what it does to the driver
\* (d.pos, which the model leaves out, aside)
Unrecognized(dr) == dr

\* RunOneTest for a directive that is not run, set or reset
HandleOther(verb) ==
  /\ pc = "idle"
  /\ Both(Unrecognized)
  /\ out' = [dir |-> "fatal",
             text |-> <<[k |-> "fatal", v |-> "unrecognized test directive: " \o verb]>>]
  /\ UNCHANGED <<pc, ph, body, traceArg, traceEnabled, cur, mi, tasks, nextId, ncmd, nruns,
                 nsets, initCalls, execLog, evLog, updLog, nfatal, lineNo, timedOut, toRun,
                 ulog>>

Next ==
  \/ \E lines \in Bodies : HandleRun(traceArg, lines)
  \/ StartDone
  \/ LineBegin
  \/ Finish
  \/ MsgStep
  \/ MsgsReturn
  \/ ApplyLine
  \/ CmdStart
  \/ CmdsReturn
  \/ \E t \in tasks : TaskSend(t)
  \/ CmdRecv
  \/ CmdTimeout
  \/ \E v \in TimeoutVals : HandleSet(v)
  \/ HandleReset
  \/ \E verb \in OtherDirectives : HandleOther(verb)

Spec == Init /\ [][Next]_vars

\* The steps of the goroutine that runs handleRun.
RunStep ==
  \/ StartDone
  \/ LineBegin
  \/ Finish
  \/ MsgStep
  \/ MsgsReturn
  \/ ApplyLine
  \/ CmdStart
  \/ CmdsReturn
  \/ CmdRecv
  \/ CmdTimeout

\* The session under the scheduling of the Go runtime: the goroutine of
\* handleRun goes on while it can take a step (the timer of
\* context.WithTimeout fires when the timeout has elapsed, a result in the
\* channel is received), and the goroutine of an effect that returns sends
\* its result.
FairNext ==
  \/ nruns = 0 /\ \E lines \in Bodies : HandleRun(traceArg, lines)
  \/ nruns > 0 /\ d.cmds # <<>> /\ HandleRun(traceArg, <<>>)
  \/ RunStep
  \/ \E t \in tasks : TaskSend(t)
  \/ nruns = 0 /\ nsets = 0 /\ \E v \in TimeoutVals : HandleSet(v)

FairSpec ==
  /\ Init /\ [][FairNext]_vars
  /\ WF_vars(RunStep)
  /\ WF_vars(\E t \in tasks : TaskSend(t))

\* ------------------------------------------- the input encoder on its own
\* The input commands of one line: at most MaxArgs arguments, and at most
\* MaxChain WithUpdater options (or arguments of ChainUpdaters).
MaxArgs == 2
MaxChain == 2

\* The model handed to RunModel.
StartModel == 3

TypeWords == { <<>>, <<"a">>, <<"é", "b">> }

KeyWords ==
  { <<"e", "n", "t", "e", "r">>, <<"t", "a", "b">>,
    <<"a", "l", "t", "+", "e", "n", "t", "e", "r">>,
    <<"x">>, <<"a", "l", "t", "+", "x">>,
    <<"é">>, <<"a", "l", "t", "+", "é">>,
    <<"x", "y">>, <<"a", "l", "t", "+", "a", "l", "t", "+", "x">>,
    <<"a", "l", "t", "+">>, <<>> }

ResizeWords ==
  { <<"8", "0">>, <<"2", "5">>, <<"-", "3">>, <<"+", "7">>, <<"1", "x">>, <<>> }

StyleWords == { <<"p", ".", "S">>, <<"p", ".", "X">>, <<"S">>, <<"b">> }

ArgWords(cmd) ==
  CASE cmd \in {"type", "enter"} -> TypeWords
    [] cmd = "key" -> KeyWords
    [] cmd = "resize" -> ResizeWords
    [] cmd = "restyle" -> StyleWords
    [] OTHER -> { <<"a">> }

EncCmds ==
  BuiltIn \cup {"paste", "noopcmd", "double", "hello", "world", "restyle", "unknown"}

ArgLists(words) == UNION { [1..n -> words] : n \in 0..MaxArgs }

EncLines ==
  UNION { { [cmd |-> c, args |-> a] : a \in ArgLists(ArgWords(c)) } : c \in EncCmds }

\* The arguments of the WithUpdater options and of ChainUpdaters.
OptUpds == {NilUpd} \cup {BaseUpd(n) : n \in UpdNames}
OptLists == UNION { [1..n -> OptUpds] : n \in 0..MaxChain }

\* Either handleRun is about to apply the only input command of the first
\* run directive (auto-init disabled, no trace), on a driver built with some
\* WithUpdater options, or a test is about to call the Updater returned by
\* ChainUpdaters, as TestChainUpdaters does (here on the model of RunModel).
EncInit ==
  /\ \E opts \in OptLists, line \in EncLines :
        /\ \/ /\ pc = "apply" /\ nruns = 1
              /\ d = [WithUpdaters(NewDriver(TRUE, FALSE), opts)
                        EXCEPT !.startDone = TRUE, !.m = StartModel]
           \/ /\ pc = "test" /\ nruns = 0
              /\ line.cmd \notin BuiltIn
              /\ d = [NewDriver(TRUE, FALSE) EXCEPT !.upd = ChainUpdaters(opts),
                                                    !.opts = opts,
                                                    !.m = StartModel]
        /\ tw = d
        /\ body = <<line>>
  /\ ph = "-" /\ traceEnabled = FALSE /\ traceArg = FALSE
  /\ cur = NoCmd /\ mi = 1
  /\ tasks = {}
  /\ out = [dir |-> "", text |-> <<>>]
  /\ nextId = 1 /\ ncmd = 0 /\ nsets = 0 /\ initCalls = 0
  /\ execLog = <<>> /\ evLog = <<>> /\ updLog = <<>>
  /\ nfatal = 0 /\ lineNo = 0 /\ timedOut = {} /\ toRun = 0
  /\ ulog = NoCall

\* TestChainUpdaters: the call upd(nil, cmd, args...)
CallChained ==
  /\ pc = "test"
  /\ ulog' = CallUpd(d.upd, d.m, Head(body).cmd, Head(body).args)
  /\ Both(LAMBDA dr : [dr EXCEPT !.km = KmUpd(dr.upd, dr.km, dr.m, Head(body).cmd,
                                                Head(body).args)])
  /\ pc' = "tested"
  /\ UNCHANGED <<ph, body, traceArg, traceEnabled, cur, mi, tasks, out, nextId,
                 ncmd, nruns, nsets, initCalls, execLog, evLog, updLog, nfatal, lineNo,
                 timedOut, toRun>>

EncNext == ApplyLine \/ CallChained

SpecEnc == EncInit /\ [][EncNext]_vars

(***************************************************************************)
(* Sessions whose input commands start the chains of the component that do *)
(* not end: type l, whose event makes Update return the effect Again, and   *)
(* type f, which makes it return the composite Forever. The effects of      *)
(* these sessions all return at once, so that no timer fires; the number of *)
(* times Forever is started is capped.                                      *)
(***************************************************************************)
MaxLoop == 3

LoopCmds == { [cmd |-> "type", args |-> <<Word1("l")>>],
              [cmd |-> "type", args |-> <<Word1("f")>>] }

LoopBodies == UNION { [1..n -> LoopCmds] : n \in 0..MaxInputs }

\* The number of times the effect c was started.
Started(c) == Cardinality({i \in 1..Len(execLog) : execLog[i].c = c})

LoopNext ==
  \/ \E lines \in LoopBodies : HandleRun(traceArg, lines)
  \/ StartDone
  \/ LineBegin
  \/ Finish
  \/ MsgStep
  \/ MsgsReturn
  \/ ApplyLine
  \/ Started("Forever") < MaxLoop /\ CmdStart
  \/ CmdsReturn
  \/ \E t \in tasks : TaskSend(t)
  \/ CmdRecv

SpecLoop == Init /\ [][LoopNext]_vars

(***************************************************************************)
(* The field updaters: a test calls the Updater that ChainUpdaters returns *)
(* over styles updaters, a key map updater and upd1, with a command         *)
(* restyle, keybind or keyhelp (or hello) on a path and some values.        *)
(***************************************************************************)
FieldPaths == { <<"p", ".", "S">>, <<"p", ".", "X">>, <<"p", ".", "N">>, <<"p", "S">>,
                <<"k", ".", "B">>, <<"k", ".", "X">>, <<"k", ".", "S">>,
                <<"q", ".", "S">>, <<"q", ".", "N">> }
FieldValues == { <<"bold">>, <<"bad">>, <<"disable">> }

\* A path and at most MaxArgs values, or no argument.
FieldArgs ==
  {<<>>} \cup {<<p>> \o vs : p \in FieldPaths,
                              vs \in UNION {[1..n -> FieldValues] : n \in 0..MaxArgs}}

FieldCmds == {"restyle", "keybind", "keyhelp", "hello"}

FieldOpts ==
  UNION {[1..n -> {BaseUpd(u) : u \in FieldUpdaters \cup {"upd1"}}] : n \in 0..MaxChain}

FieldInit ==
  /\ \E opts \in FieldOpts, cmd \in FieldCmds, args \in FieldArgs :
        /\ d = [NewDriver(TRUE, FALSE) EXCEPT !.upd = ChainUpdaters(opts),
                                              !.opts = opts,
                                              !.m = StartModel]
        /\ tw = d
        /\ body = <<[cmd |-> cmd, args |-> args]>>
  /\ pc = "test" /\ nruns = 0
  /\ ph = "-" /\ traceEnabled = FALSE /\ traceArg = FALSE
  /\ cur = NoCmd /\ mi = 1
  /\ tasks = {}
  /\ out = [dir |-> "", text |-> <<>>]
  /\ nextId = 1 /\ ncmd = 0 /\ nsets = 0 /\ initCalls = 0
  /\ execLog = <<>> /\ evLog = <<>> /\ updLog = <<>>
  /\ nfatal = 0 /\ lineNo = 0 /\ timedOut = {} /\ toRun = 0
  /\ ulog = NoCall

FieldNext == CallChained

SpecFld == FieldInit /\ [][FieldNext]_vars

(***************************************************************************)
(* The observers at the end of a run: a driver on a component of any of    *)
(* the model types, with the options WithObserver of ObsOpts, at the last  *)
(* step of handleRun for a directive "run observe=(...)".                  *)
(***************************************************************************)
MaxText == 3
MaxObserve == 2
MaxObsOpts == 1

\* The sequences over S of length at most n.
SeqsUpTo(S, n) == UNION {[1..k -> S] : k \in 0..n}

\* The texts of the views of the text components.
ViewTexts == SeqsUpTo({"a", Newline}, MaxText)

\* The names a directive passes in observe=(...).
ObsNames == {"view", "debug", "gostruct", "msgs", "cmds", "hello", "nope"}

\* The options WithObserver(what, obs) of a test.
ObsOpts == {[what |-> "hello", obs |-> "worldObserver"],
            [what |-> "view", obs |-> "worldObserver"],
            [what |-> "msgs", obs |-> "worldObserver"]}

\* NewDriver applying the options WithObserver of opts in order
RECURSIVE WithObservers(_, _)
WithObservers(dr, opts) ==
  IF opts = <<>> THEN dr
  ELSE WithObservers(WithObserver(dr, Head(opts).what, Head(opts).obs), Tail(opts))

\* The components: their dynamic type and value.
Components ==
  {[mt |-> "intModel", m |-> StartModel, vt |-> <<>>],
   [mt |-> "structModel", m |-> 0, vt |-> <<"VALUE: '\\x00'">>]}
    \cup {[mt |-> "textModel", m |-> 0, vt |-> t] : t \in ViewTexts}

ObsInit ==
  /\ \E c \in Components, opts \in SeqsUpTo(ObsOpts, MaxObsOpts),
        obs \in SeqsUpTo(ObsNames, MaxObserve) :
        /\ d = [WithObservers(NewDriver(TRUE, FALSE), opts)
                 EXCEPT !.startDone = TRUE, !.mt = c.mt, !.m = c.m, !.vt = c.vt,
                        !.observe = obs]
        /\ tw = d
  /\ pc = "fin3" /\ ph = "msgs"
  /\ body = <<>> /\ traceEnabled = FALSE /\ traceArg = FALSE
  /\ cur = NoCmd /\ mi = 1
  /\ tasks = {}
  /\ out = [dir |-> "", text |-> <<>>]
  /\ nextId = 1 /\ ncmd = 0 /\ nruns = 1 /\ nsets = 0 /\ initCalls = 0
  /\ execLog = <<>> /\ evLog = <<>> /\ updLog = <<>>
  /\ nfatal = 0 /\ lineNo = 0 /\ timedOut = {} /\ toRun = 0
  /\ ulog = NoCall

ObsNext == MsgsReturn

SpecObs == ObsInit /\ [][ObsNext]_vars

(***************************************************************************)
(* Run directives whose input commands go to the updater of the test       *)
(* component (double, noopcmd) or to the encoder (type).                   *)
(***************************************************************************)
UpdCmds == { [cmd |-> "double", args |-> <<>>],
             [cmd |-> "noopcmd", args |-> <<>>],
             [cmd |-> "type", args |-> <<Word1("a")>>] }

UpdBodies == UNION { [1..n -> UpdCmds] : n \in 0..MaxInputs }

UpdNext ==
  \/ \E lines \in UpdBodies : HandleRun(traceArg, lines)
  \/ RunStep
  \/ \E t \in tasks : TaskSend(t)

SpecUpd == Init /\ [][UpdNext]_vars

(***************************************************************************)
(* Sessions of set and reset directives with any arguments, around one run *)
(* directive.                                                              *)
(***************************************************************************)
DurWords == { <<"5", "0", "0", "ms">>, <<"7", "0">>, <<"ms">> }

SetVals == { <<>> } \cup { <<w>> : w \in DurWords }
             \cup { << <<"5", "0", "0", "ms">>, <<"5", "0", "0", "ms">> >> }

SetArgs == [key : {"cmd_timeout", "width"}, vals : SetVals]

\* No argument, one argument, or the same argument several times.
SetArgLists == { [i \in 1..n |-> a] : n \in 0..MaxArgs, a \in SetArgs }

\* The bodies of the run directive of these sessions.
SetBodies == { <<>>, <<[cmd |-> "noopcmd", args |-> <<>>]>> }

SetNext ==
  \/ nruns = 0 /\ \E lines \in SetBodies : HandleRun(traceArg, lines)
  \/ RunStep
  \/ \E t \in tasks : TaskSend(t)
  \/ \E verb \in {"set", "reset"}, args \in SetArgLists : HandleSetArgs(verb, args)

SpecSet == Init /\ [][SetNext]_vars

(***************************************************************************)
(* Sessions whose run directives carry the trace argument, next to a twin  *)
(* that is given the same directives without it and whose effects take the *)
(* same time.                                                              *)
(***************************************************************************)
Untraced(dr) == [dr EXCEPT !.mute = TRUE]

TraceInit ==
  /\ \E noInit \in BOOLEAN, autoSize \in BOOLEAN :
        /\ d = WithUpdater(NewDriver(noInit, autoSize), BaseUpd("updater"))
        /\ tw = Untraced(d)
  /\ pc = "idle" /\ ph = "-"
  /\ body = <<>> /\ traceEnabled = FALSE
  /\ traceArg = TRUE
  /\ cur = NoCmd /\ mi = 1
  /\ tasks = {}
  /\ out = [dir |-> "", text |-> <<>>]
  /\ nextId = 1 /\ ncmd = 0 /\ nruns = 0 /\ nsets = 0 /\ initCalls = 0
  /\ execLog = <<>> /\ evLog = <<>> /\ updLog = <<>>
  /\ nfatal = 0 /\ lineNo = 0 /\ timedOut = {} /\ toRun = 0
  /\ ulog = NoCall

SpecTrace == TraceInit /\ [][Next]_vars

\* ------------------------------------------------------------------ claims
Range(q) == {q[i] : i \in 1..Len(q)}

\* The effects waiting to be executed: the work list of processTeaCmds
\* followed by d.cmds.
Pending == d.inputs \o d.cmds

\* A run directive has returned and no other directive has started.
RunReturned == pc = "idle" /\ out.dir = "run"

\* handleRun is about to apply an input command that is not the first of its
\* run directive: the previous one (c1) has the index ncmd, the next (c2) the
\* index ncmd + 1, and none of the events of c2 exists yet.
BeforeNextInput == pc = "apply" /\ lineNo >= 1

\* The number of entries of the queue q that satisfy P.
Count(q, P(_)) == Len(SelectSeq(q, P))

\* C1 (as stated): when a run directive returns, the pending-effect queue and
\* the pending-event queue are both empty.
C1_Fixpoint == RunReturned => (d.cmds = <<>> /\ d.msgs = <<>>)

\* C1 (amended): when a run directive returns, the pending-event queue is
\* empty and the pending-effect queue holds only effects returned by update
\* calls of the directive's last event-draining pass.
C1_LastPassResidue ==
  RunReturned =>
    /\ d.msgs = <<>>
    /\ d.inputs = <<>>
    /\ \A c \in Range(d.cmds) : c.at = "fin3"

\* C1 witness: a run directive returned with an effect still queued, returned
\* by the update of an opaque event that an effect had yielded.
C1_Witness ==
  /\ RunReturned
  /\ d.cmds # <<>>
  /\ \E e \in Range(updLog) : e.msg.type = "opaque" /\ e.src = "cmd"

\* C2 (as stated): when the events of the input command c2 are about to be
\* appended, every event and effect derived from the previous input command
\* c1 of the same run directive has been applied / executed: none is queued.
C2_DrainedBeforeNext ==
  BeforeNextInput =>
    /\ \A e \in Range(d.msgs) : e.gen # ncmd
    /\ \A c \in Range(Pending) : c.gen # ncmd

\* C2 (amended): when the events of c2 are about to be appended, every event
\* derived so far from c1 has been rendered or passed to update and every
\* effect that c1 returned, with all its children, has been executed; the
\* effects returned by the update calls on the events of c1 are all still
\* queued, unexecuted.
C2_UpdatesStillQueued ==
  BeforeNextInput =>
    /\ d.msgs = <<>>
    /\ d.inputs = <<>>
    /\ \A c \in Range(d.cmds) : c.gen = ncmd => (c.at = "lineMsgs" /\ c.par = 0)
    /\ \A c \in Range(d.cmds) : \A i \in 1..Len(execLog) : execLog[i].id # c.id
    /\ Count(d.cmds, LAMBDA c : c.gen = ncmd)
         = Count(updLog, LAMBDA e : e.gen = ncmd /\ UpdateCmd(e.msg) # NilCmd)

\* C2 witness: the events of c2 are in the event queue while an effect returned
\* by the update on an event of c1 is still waiting in the effect queue.
C2_Witness ==
  /\ pc = "lineCmds" /\ lineNo >= 2
  /\ \E e \in Range(d.msgs) : e.gen = ncmd /\ e.src = "input"
  /\ \E c \in Range(Pending) : c.gen = ncmd - 1 /\ c.at = "lineMsgs"
  /\ \E e \in Range(updLog) : e.gen = ncmd - 1 /\ e.src = "input"

\* C3 (as stated): the children of a composite are executed before every
\* effect that was already pending when the composite was expanded
\* (depth-first): an effect y queued before the children of p and executed
\* after p is executed after each child x of p.
C3_DepthFirst ==
  \A i, j, k \in 1..Len(execLog) :
    LET p == execLog[i]
        x == execLog[j]
        y == execLog[k]
    IN (x.par = p.id /\ y.par # p.id /\ y.id < x.id /\ i < k) => j < k

\* C3 (amended): the children of a composite are placed at the back of the
\* remaining effect work in their declared order, so every effect that was
\* already pending when the composite was expanded is executed before any of
\* its children (breadth-first): effects are executed in the order in which
\* they were queued (their ids grow along the execution log, from there into
\* the work list and along it).
C3_BreadthFirst ==
  LET all == execLog \o Pending
  IN \A k \in 1..(Len(all) - 1) : all[k].id < all[k + 1].id

\* C3 witness: a composite p was executed, then an effect y that was pending
\* when p was expanded and is not a child of p, then a child x of p.
C3_Witness ==
  \E i, j, k \in 1..Len(execLog) :
    /\ i < k /\ k < j
    /\ execLog[j].par = execLog[i].id
    /\ execLog[k].par # execLog[i].id
    /\ execLog[k].id < execLog[j].id

\* C4: the children of a composite are executed in their declared order, and
\* the events they return are appended to the event queue in that order:
\* every child executed before the effect executed last was declared before
\* it, the children still pending were declared after it, and every event of
\* a child that precedes the event appended last is of a child declared
\* before the one that returned it.
C4_SiblingOrder ==
  /\ execLog # <<>> =>
        LET b == execLog[Len(execLog)]
        IN b.par # 0 =>
             /\ \A i \in 1..(Len(execLog) - 1) :
                   execLog[i].par = b.par => execLog[i].idx < b.idx
             /\ \A x \in Range(Pending) : x.par = b.par => b.idx < x.idx
  /\ \A i \in 1..(Len(Pending) - 1) :
        Pending[i].par # 0 =>
          \A j \in (i + 1)..Len(Pending) :
            Pending[j].par = Pending[i].par => Pending[i].idx < Pending[j].idx
  /\ evLog # <<>> =>
        LET b == evLog[Len(evLog)].from
        IN b.par # 0 =>
             \A i \in 1..(Len(evLog) - 1) :
               evLog[i].from.par = b.par => evLog[i].from.idx < b.idx

\* C4 witness: two children A, B of one composite were executed, with effects
\* of other origins executed before and after them, and each returned an
\* event.
C4_Witness ==
  \E i, j \in 1..Len(execLog) :
    /\ execLog[i].par # 0 /\ execLog[i].par = execLog[j].par
    /\ execLog[i].idx < execLog[j].idx
    /\ \E h \in 1..(i - 1) : execLog[h].par # execLog[i].par /\ execLog[h].id # execLog[i].par
    /\ \E k \in (j + 1)..Len(execLog) : execLog[k].par # execLog[i].par
    /\ \E a, b \in 1..Len(evLog) :
          a < b /\ evLog[a].from.id = execLog[i].id /\ evLog[b].from.id = execLog[j].id

\* C5: the result of an effect whose wait timed out is never consumed: it is
\* never appended to the event queue (so never rendered and never passed to
\* update), in the directive of the timeout or in a later one.
C5_LateResultDiscarded ==
  /\ \A e \in Range(evLog) : e.from.id \notin timedOut
  /\ \A e \in Range(d.msgs) : e.from.id \notin timedOut
  /\ \A e \in Range(updLog) : e.from.id \notin timedOut
  /\ \A id \in timedOut : \E t \in tasks : t.id = id /\ ~t.waited

\* C5 witness: in a later run directive the driver waits for an effect while
\* the result of an abandoned task is available.
C5_Witness ==
  /\ ph = "wait" /\ nruns >= 2
  /\ cur.id \notin timedOut
  /\ \E t \in tasks : t.id \in timedOut /\ t.st = "sent"

\* The "timeout waiting for command" line of the trace.
IsTimeoutLine(l) == l = [k |-> "trace", v |-> "timeout waiting for command"]

\* C6: the driver d, whose effects time out, and the driver tw, run on the
\* same directives with effects that return nil where those of d time out,
\* have the same component state, the same queues and the same output, except
\* for one "timeout waiting for command" trace line per timed-out effect in
\* the output of d, present only when tracing is enabled.
C6_TimeoutAsNil ==
  /\ [d EXCEPT !.result = <<>>] = [tw EXCEPT !.result = <<>>]
  /\ SelectSeq(d.result, LAMBDA l : ~IsTimeoutLine(l)) = tw.result
  /\ Count(d.result, IsTimeoutLine) = (IF traceEnabled THEN toRun ELSE 0)
  /\ Count(tw.result, IsTimeoutLine) = 0

\* C6 witness: a traced run directive returned after two of its effects timed
\* out, and the outputs of d and tw differ.
C6_Witness ==
  /\ RunReturned /\ traceEnabled /\ toRun = 2
  /\ d.result # tw.result
  /\ d.m = tw.m

\* C7: with auto-init disabled Init is never called; with auto-init enabled
\* it has been called exactly once as soon as the first run directive has
\* started, and is not called again by any later directive.
C7_InitOnce ==
  initCalls = (IF d.disableAutoInit \/ nruns = 0 THEN 0 ELSE 1)

\* C7 witness: two run directives and a set/reset directive have been
\* executed with auto-init enabled.
C7_Witness ==
  /\ pc = "idle" /\ nruns = 2 /\ nsets = 1
  /\ ~d.disableAutoInit /\ initCalls = 1

\* handleRun is about to apply the first input command of the first run
\* directive, with auto-init enabled.
BeforeFirstInput ==
  pc = "apply" /\ lineNo = 0 /\ nruns = 1 /\ ~d.disableAutoInit

\* C8 (as stated): before any event of the first input command is generated,
\* the effect returned by Init is fully drained: no effect and no event is
\* queued.
C8_InitFullyDrained ==
  BeforeFirstInput => (Pending = <<>> /\ d.msgs = <<>>)

\* C8 (amended): before any event of the first input command is generated,
\* the effect returned by Init has been executed with all its composites
\* expanded, and every resulting event has been rendered or applied to
\* update; the effects returned by those update calls are still queued,
\* unexecuted.
C8_InitDrainedButUpdates ==
  BeforeFirstInput =>
    /\ d.msgs = <<>>
    /\ d.inputs = <<>>
    /\ \E i \in 1..Len(execLog) : execLog[i].c = ModelInit /\ execLog[i].at = "init"
    /\ \A e \in Range(evLog) :
          /\ e.msg.type \notin {"tea.BatchMsg", "tea.sequenceMsg"}
          /\ e.src # "input" /\ e.gen = 0
    /\ Count(evLog, LAMBDA e : ~IsRendered(e.msg)) = Len(updLog)
    /\ \A c \in Range(d.cmds) : c.gen = 0 /\ c.at = "lineMsgs" /\ c.par = 0
    /\ \A c \in Range(d.cmds) : \A i \in 1..Len(execLog) : execLog[i].id # c.id
    /\ Len(d.cmds) = Count(updLog, LAMBDA e : UpdateCmd(e.msg) # NilCmd)

\* C8 witness: the events of the first input command are in the event queue
\* while an effect returned by the update on an event derived from Init is
\* still waiting in the effect queue.
C8_Witness ==
  /\ pc = "lineCmds" /\ lineNo = 1 /\ nruns = 1 /\ ~d.disableAutoInit
  /\ \E e \in Range(d.msgs) : e.src = "input"
  /\ \E c \in Range(Pending) : c.gen = 0 /\ c.at = "lineMsgs"
  /\ \E e \in Range(updLog) : e.gen = 0 /\ e.src = "cmd"

\* C9: with the window-size option exactly one WindowSizeMsg of the configured
\* size is queued by the driver itself in a session: in the first run
\* directive, after the effects of Init are executed, before any event of an
\* input command; without the option there is none.
C9_AutoSizeOnce ==
  LET autos == SelectSeq(evLog, LAMBDA e : e.src = "auto")
  IN /\ Len(autos) = (IF d.autoSize /\ d.startDone THEN 1 ELSE 0)
     /\ \A e \in Range(autos) : e.msg = Msg("tea.WindowSizeMsg", "80 25") /\ e.gen = 0
     /\ d.startDone = (nruns >= 1 /\ (nruns = 1 => pc \notin {"init", "start"}))
     /\ \A i \in 1..Len(evLog) :
           evLog[i].src = "auto" =>
             /\ \A j \in 1..(i - 1) : evLog[j].src # "input"
             /\ \A j \in (i + 1)..Len(evLog) : evLog[j].from.at # "init"
     /\ d.startDone =>
           /\ \A c \in Range(Pending) : c.at # "init"
           /\ ~d.disableAutoInit => \E i \in 1..Len(execLog) : execLog[i].c = ModelInit

\* C9 witness: with the window-size option and auto-init, a second run
\* directive has returned, input events were queued, and the session has one
\* WindowSizeMsg of the driver.
C9_Witness ==
  /\ RunReturned /\ nruns = 2
  /\ d.autoSize /\ ~d.disableAutoInit
  /\ \E e \in Range(evLog) : e.src = "input"
  /\ Count(evLog, LAMBDA e : e.src = "auto") = 1

\* The catalog of well-known primitives and the line each is rendered as.
Catalog ==
  {"tea.printLineMessage", "tea.quitMsg", "tea.execMsg", "tea.hideCursorMsg",
   "tea.enterAltScreenMsg", "tea.exitAltScreenMsg",
   "tea.enableMouseCellMotionMsg", "tea.enableMouseAllMotionMsg",
   "tea.disableMouseMsg"}

Canonical(msg) ==
  CASE msg.type = "tea.printLineMessage" -> "TEA PRINT: {" \o msg.v \o "}"
    [] msg.type = "tea.quitMsg" -> "TEA QUIT"
    [] msg.type = "tea.execMsg" -> "TEA EXEC"
    [] msg.type = "tea.hideCursorMsg" -> "TEA HIDE CURSOR"
    [] msg.type = "tea.enterAltScreenMsg" -> "TEA ENTER ALT"
    [] msg.type = "tea.exitAltScreenMsg" -> "TEA EXIT ALT"
    [] msg.type = "tea.enableMouseCellMotionMsg" -> "TEA ENABLE MOUSE CELL MOTION"
    [] msg.type = "tea.enableMouseAllMotionMsg" -> "TEA ENABLE MOUSE MOTION ALL"
    [] msg.type = "tea.disableMouseMsg" -> "TEA DISABLE MOUSE"

\* C10: processing an event of a catalog type appends exactly one output
\* line, its canonical rendering, besides the trace; it does not call
\* Update, and leaves the component state and the effect queue unchanged.
C10_CatalogRendered ==
  [][(/\ ph = "msgs" /\ mi' = mi + 1
      /\ d.msgs[mi].msg.type \in Catalog)
     => /\ d'.m = d.m
        /\ d'.cmds = d.cmds /\ d'.inputs = d.inputs
        /\ updLog' = updLog
        /\ \A e \in Range(updLog') : e.msg.type \notin Catalog
        /\ SelectSeq(d'.result, LAMBDA l : l.k # "trace")
             = Append(SelectSeq(d.result, LAMBDA l : l.k # "trace"),
                      [k |-> "tea", v |-> Canonical(d.msgs[mi].msg)])
        /\ Len(d'.result) = Len(d.result) + (IF traceEnabled THEN 2 ELSE 1)]_vars

\* C10 witness: a tea.quitMsg has just been processed and its line is the last
\* of the output.
C10_Witness ==
  /\ ph = "msgs" /\ mi > 1
  /\ d.msgs[mi - 1].msg.type = "tea.quitMsg"
  /\ d.result # <<>>
  /\ d.result[Len(d.result)] = [k |-> "tea", v |-> "TEA QUIT"]

\* The lines of the output other than the trace.
Shown(dr) == SelectSeq(dr.result, LAMBDA l : l.k # "trace")

\* processTeaMsgs is about to process, or has just processed, the entry mi.
MsgStepOn(P(_)) == ph = "msgs" /\ mi <= Len(d.msgs) /\ mi' = mi + 1 /\ P(d.msgs[mi])

\* The effect queue after queueing the tea.Cmd c returned by Update.
CmdsWith(q, c) == IF c = NilCmd THEN q ELSE Append(q, c)
CmdNames(q) == [i \in 1..Len(q) |-> q[i].c]

\* C11: processing a tea.WindowSizeMsg renders it as one TEA WINDOW SIZE
\* line and also passes it to Update exactly once; the model returned by
\* Update becomes the current one and the returned tea.Cmd is queued.
C11_SizeRenderedAndUpdated ==
  [][MsgStepOn(LAMBDA e : e.msg.type = "tea.WindowSizeMsg")
     => /\ Shown(d') = Append(Shown(d), [k |-> "tea",
                                         v |-> "TEA WINDOW SIZE: {" \o d.msgs[mi].msg.v \o "}"])
        /\ updLog' = Append(updLog, d.msgs[mi])
        /\ d'.m = Update(d.m, d.msgs[mi].msg).m
        /\ CmdNames(d'.cmds) = CmdsWith(CmdNames(d.cmds), Update(d.m, d.msgs[mi].msg).cmd)]_vars

\* Update applied, from the model m, to the events of q in order.
RECURSIVE FoldUpdate(_, _)
FoldUpdate(q, m) ==
  IF q = <<>> THEN m ELSE FoldUpdate(Tail(q), Update(m, Head(q).msg).m)

\* The events generated so far that are not of a rendered catalog type.
ToUpdate == SelectSeq(evLog, LAMBDA e : e.msg.type \notin Catalog \cup {"tea.WindowSizeMsg"})

\* Processing an event that is not of a rendered type calls Update once on
\* it: the model it returns becomes the current one and the tea.Cmd it
\* returns, unless nil, goes to the tail of the effect queue, the rest of the
\* queue being unchanged; nothing is rendered.
UpdateApplied ==
  MsgStepOn(LAMBDA e : e.msg.type \notin Catalog \cup {"tea.WindowSizeMsg"})
    => /\ updLog' = Append(updLog, d.msgs[mi])
       /\ d'.m = Update(d.m, d.msgs[mi].msg).m
       /\ CmdNames(d'.cmds) = CmdsWith(CmdNames(d.cmds), Update(d.m, d.msgs[mi].msg).cmd)
       /\ SubSeq(d'.cmds, 1, Len(d.cmds)) = d.cmds
       /\ Shown(d') = Shown(d)
       /\ d'.msgs = d.msgs

\* The events passed to Update so far are, in the order they were queued and
\* each once, the non-catalog events generated so far, less those still
\* queued; the current model is the left fold of Update over them.
FifoFold ==
  /\ Len(updLog) <= Len(ToUpdate)
  /\ updLog = SubSeq(ToUpdate, 1, Len(updLog))
  /\ d.m = FoldUpdate(updLog, 0)
  /\ (ph # "msgs" /\ d.msgs = <<>>) => updLog = ToUpdate

\* C12: event draining passes the queued non-catalog events to Update in
\* FIFO order, each once; after each call the current model is the one the
\* call returned and the returned non-nil tea.Cmd is at the tail of the
\* effect queue, so that the model after draining is the left fold of Update
\* over the events in queue order.
C12_FifoUpdate == []FifoFold /\ [][UpdateApplied]_vars

\* C12 witness: a draining pass has applied two events to Update, the second
\* on the model the first returned, and the model changed.
C12_Witness ==
  /\ ph = "msgs" /\ mi = 3
  /\ ~IsRendered(d.msgs[1].msg) /\ ~IsRendered(d.msgs[2].msg)
  /\ Len(updLog) >= 3
  /\ d.m # 0
  /\ d.cmds # <<>>

\* No effect has yielded an opaque event.
NoOpaque == \A i \in 1..Len(evLog) : ~(evLog[i].src = "cmd" /\ evLog[i].msg.type = "opaque")

\* C13: when no effect has yielded an opaque event, a run directive returns
\* with the effect queue and the event queue empty and with the model that
\* the last call of Update returned (the initial one if there was no call).
C13_DrainedWithoutOpaque ==
  (RunReturned /\ NoOpaque)
    => /\ d.cmds = <<>> /\ d.inputs = <<>> /\ d.msgs = <<>>
       /\ d.m = (IF updLog = <<>> THEN 0
                 ELSE Update(FoldUpdate(SubSeq(updLog, 1, Len(updLog) - 1), 0),
                             updLog[Len(updLog)].msg).m)

\* C13 witness: a run directive returned after effects, composites among
\* them, were executed and Update was called, none yielding an opaque event.
C13_Witness ==
  /\ RunReturned /\ NoOpaque
  /\ updLog # <<>>
  /\ \E i \in 1..Len(execLog) : execLog[i].par # 0
  /\ \E i \in 1..Len(evLog) : evLog[i].src = "cmd"

\* handleRun applies the input command c: the step of ApplyTextCommand.
ApplyOn(c) == pc = "apply" /\ Head(body).cmd = c /\ ncmd' = ncmd + 1

\* The events of the entries a step appended to d.msgs.
NewEvents == [i \in 1..Len(d'.msgs) - Len(d.msgs) |-> d'.msgs[Len(d.msgs) + i].msg]

\* The step appended to d.msgs and changed nothing else of the driver.
OnlyMsgsAppended ==
  /\ Len(d'.msgs) >= Len(d.msgs)
  /\ SubSeq(d'.msgs, 1, Len(d.msgs)) = d.msgs
  /\ [d' EXCEPT !.msgs = <<>>] = [d EXCEPT !.msgs = <<>>]

\* The step was fatal: t.Fatalf was called and the driver is as it was.
WasFatal == nfatal' = nfatal + 1 /\ out'.dir = "fatal"
NotFatalStep == nfatal' = nfatal /\ out' = out

\* The arguments separated by single spaces, built from the last one down.
RECURSIVE Joined(_)
Joined(args) ==
  IF args = <<>> THEN <<>>
  ELSE IF Len(args) = 1 THEN args[1]
  ELSE Joined(SubSeq(args, 1, Len(args) - 1)) \o <<" ">> \o args[Len(args)]

RECURSIVE TotalLen(_)
TotalLen(args) == IF args = <<>> THEN 0 ELSE Len(Head(args)) + TotalLen(Tail(args))

\* One rune key event per character of chars.
RuneEvents(chars, alt) == [i \in 1..Len(chars) |-> KeyMsg("runes", chars[i], alt)]

\* C14: the input command type appends to the event queue one rune key
\* event per character of its arguments joined by single spaces, in order,
\* and nothing else: L + (n - 1) events for n >= 1 arguments of total
\* length L.
C14_TypeRunes ==
  [][ApplyOn("type")
     => /\ NotFatalStep
        /\ OnlyMsgsAppended
        /\ NewEvents = RuneEvents(Joined(Head(body).args), FALSE)
        /\ Len(NewEvents) = (IF Head(body).args = <<>> THEN 0
                             ELSE TotalLen(Head(body).args) + Len(Head(body).args) - 1)]_vars

\* C14 witness: `type a éb` was applied and queued the four events a, space,
\* é, b.
C14_Witness ==
  /\ pc = "lineCmds" /\ lineNo = 1
  /\ Head(body) = [cmd |-> "type", args |-> << <<"a">>, <<"é", "b">> >>]
  /\ Len(d.msgs) = 4
  /\ d.msgs[2].msg = KeyMsg("runes", " ", FALSE)
  /\ d.msgs[3].msg = KeyMsg("runes", "é", FALSE)

\* C15: the input command enter appends the events that type appends for
\* the same arguments, followed by one enter key event, the last one.
C15_EnterAfterType ==
  [][ApplyOn("enter")
     => /\ NotFatalStep
        /\ OnlyMsgsAppended
        /\ NewEvents =
             Append([i \in 1..Len(typeIn(d, Head(body).args, FALSE, 0).msgs) - Len(d.msgs) |->
                       typeIn(d, Head(body).args, FALSE, 0).msgs[Len(d.msgs) + i].msg],
                    KeyMsg("enter", "", FALSE))
        /\ NewEvents[Len(NewEvents)] = KeyMsg("enter", "", FALSE)
        /\ \A i \in 1..Len(NewEvents) - 1 : NewEvents[i].kt = "runes"]_vars

\* C15 witness: `enter éb` was applied and queued é, b and the enter key.
C15_Witness ==
  /\ pc = "lineCmds" /\ lineNo = 1
  /\ Head(body) = [cmd |-> "enter", args |-> << <<"é", "b">> >>]
  /\ Len(d.msgs) = 3
  /\ d.msgs[1].msg = KeyMsg("runes", "é", FALSE)
  /\ d.msgs[3].msg = KeyMsg("enter", "", FALSE)

\* C16: the input command paste is not fatal and appends one key event that
\* carries the whole text, not one event per character.
C16_PasteOneEvent ==
  [][ApplyOn("paste")
     => /\ NotFatalStep
        /\ OnlyMsgsAppended
        /\ Len(NewEvents) = 1
        /\ NewEvents[1].type = "tea.KeyMsg"
        /\ NewEvents[1].v = Str(Joined(Head(body).args))]_vars

\* C17: the input command key, with one argument, appends one event: the
\* special key of the table when the name, less one leading alt+, is in the
\* table, a rune event when the name is not in the table and is one character
\* long, both with alt set iff the prefix was there; any other name is fatal
\* and appends nothing.
C17_KeyOneEvent ==
  [][(ApplyOn("key") /\ Len(Head(body).args) = 1)
     => LET arg == Head(body).args[1]
            alt == Len(arg) >= 4 /\ SubSeq(arg, 1, 4) = <<"a", "l", "t", "+">>
            name == IF alt THEN SubSeq(arg, 5, Len(arg)) ELSE arg
        IN IF Str(name) \in allKeys
             THEN /\ NotFatalStep /\ OnlyMsgsAppended
                  /\ NewEvents = <<KeyMsg(Str(name), "", alt)>>
           ELSE IF Len(name) = 1
             THEN /\ NotFatalStep /\ OnlyMsgsAppended
                  /\ NewEvents = <<KeyMsg("runes", name[1], alt)>>
           ELSE WasFatal /\ d' = d]_vars

\* The integers the words of ResizeWords denote.
IntWords == { <<"8", "0">>, <<"2", "5">>, <<"-", "3">>, <<"+", "7">> }
IntOf(w) ==
  CASE w = <<"8", "0">> -> 80
    [] w = <<"2", "5">> -> 25
    [] w = <<"-", "3">> -> 0 - 3
    [] w = <<"+", "7">> -> 7

\* C18: the input command resize with two integer arguments appends one
\* tea.WindowSizeMsg that carries them; with another number of arguments, or
\* with an argument that is not an integer, it is fatal, appends no event
\* and changes nothing of the driver.
C18_ResizeOrFatal ==
  [][ApplyOn("resize")
     => LET args == Head(body).args
        IN IF Len(args) = 2 /\ args[1] \in IntWords /\ args[2] \in IntWords
             THEN /\ NotFatalStep /\ OnlyMsgsAppended
                  /\ NewEvents = <<WindowSizeMsg(IntOf(args[1]), IntOf(args[2]))>>
                  /\ NewEvents[1].v = ToString(IntOf(args[1])) \o " " \o ToString(IntOf(args[2]))
             ELSE /\ WasFatal
                  /\ d' = d /\ tw' = tw /\ evLog' = evLog]_vars

\* C18 witness: `resize -3 +7` was applied and queued the size (-3, 7).
C18_Witness ==
  /\ pc = "lineCmds" /\ lineNo = 1
  /\ Head(body) = [cmd |-> "resize", args |-> << <<"-", "3">>, <<"+", "7">> >>]
  /\ Len(d.msgs) = 1
  /\ d.msgs[1].msg.type = "tea.WindowSizeMsg"
  /\ d.msgs[1].msg.v = "-3 7"

\* The functions an Updater value is made of, in the order of the chain.
RECURSIVE Flatten(_)
RECURSIVE FlattenAll(_)
FlattenAll(us) == IF us = <<>> THEN <<>> ELSE Flatten(Head(us)) \o FlattenAll(Tail(us))
Flatten(u) ==
  CASE u.kind = "nil" -> <<>>
    [] u.kind = "base" -> <<u.name>>
    [] OTHER -> FlattenAll(u.actual)

\* handleRun applies an input command that is not built in.
ApplyOther == pc = "apply" /\ Head(body).cmd \notin BuiltIn /\ ncmd' = ncmd + 1

\* C19 (as stated): a command that is not built in and that the registered
\* updaters report as not supported, without an error, is not fatal.
C19_UnhandledNotFatal ==
  [][(ApplyOther /\ d.upd.kind # "nil" /\ ~ulog'.r.supported /\ ~ulog'.r.err)
     => NotFatalStep]_vars

\* C19 (amended): a command that is not built in is passed to the registered
\* updaters, once; it is fatal when no updater is registered, when the
\* updaters report it as not supported and when they return an error, and
\* the driver is then unchanged; otherwise the model they return becomes the
\* current one and the tea.Cmd they return, unless nil, is queued.
C19_UnhandledFatal ==
  [][ApplyOther
     => /\ d.upd.kind = "nil" => ulog' = NoCall
        /\ d.upd.kind # "nil" => (ulog'.calls = Flatten(d.upd) \/ ulog'.r.supported \/ ulog'.r.err)
        /\ IF d.upd.kind = "nil" \/ ~ulog'.r.supported \/ ulog'.r.err
             THEN WasFatal /\ d' = d /\ evLog' = evLog
             ELSE /\ NotFatalStep
                  /\ d'.m = ulog'.r.m
                  /\ CmdNames(d'.cmds) = CmdsWith(CmdNames(d.cmds), ulog'.r.cmd)
                  /\ d'.msgs = d.msgs]_vars

\* C19 witness: with an updater registered, a command that it does not
\* support was fatal.
C19_Witness ==
  /\ pc = "idle" /\ nfatal = 1
  /\ d.upd.kind # "nil"
  /\ ulog.calls # <<>> /\ ~ulog.r.supported /\ ~ulog.r.err
  /\ out = [dir |-> "fatal", text |-> <<[k |-> "fatal", v |-> "unknown command unknown"]>>]

\* C20: the Updater returned by ChainUpdaters calls the updaters in order,
\* the nil ones left out, on the model it is given, up to the first that
\* reports the command as supported or returns an error, and returns what
\* that one returned; when there is none it calls them all and reports the
\* command as not supported, with no error.
C20_FirstMatch ==
  pc = "tested"
    => LET names == Flatten(d.upd)
           res(i) == CallBase(names[i], d.m, Head(body).cmd, Head(body).args)
           stops == {i \in 1..Len(names) : res(i).supported \/ res(i).err}
       IN IF stops = {}
            THEN ulog.calls = names /\ ~ulog.r.supported /\ ~ulog.r.err
            ELSE LET k == CHOOSE i \in stops : \A j \in stops : i <= j
                 IN ulog.calls = SubSeq(names, 1, k) /\ ulog.r = res(k)

\* C20 witness: the chain of upd1 and upd2 was called on "world": upd1, then
\* upd2, which supports it.
C20_Witness ==
  /\ pc = "tested"
  /\ Head(body).cmd = "world"
  /\ d.upd = ChainUpd(<<BaseUpd("upd1"), BaseUpd("upd2")>>)
  /\ ulog.calls = <<"upd1", "upd2">>
  /\ ulog.r.supported

\* The updaters registered, the nil ones left out.
Registered == SelectSeq(d.opts, LAMBDA u : u.kind # "nil")

\* Two calls of an Updater that cannot be told apart: the same functions
\* invoked, the same verdict and error and, when the command is supported,
\* the same model and tea.Cmd.
SameCall(a, b) ==
  /\ a.calls = b.calls
  /\ a.r.supported = b.r.supported /\ a.r.err = b.r.err
  /\ (a.r.supported \/ a.r.err) => a.r = b.r

\* The Updater returned by ChainUpdaters over no updater rejects the command;
\* over one updater, it is that updater and returns what it returns.
ChainOfFew ==
  pc = "tested"
    => /\ Registered = <<>>
            => ulog.calls = <<>> /\ ~ulog.r.supported /\ ~ulog.r.err
       /\ Len(Registered) = 1
            => /\ d.upd = Registered[1]
               /\ ulog.calls = <<Registered[1].name>>
               /\ ulog.r = CallBase(Registered[1].name, d.m, Head(body).cmd, Head(body).args)

\* The updater that repeated WithUpdater options leave in the driver answers
\* a command as ChainUpdaters over the same updaters, in the order of
\* registration, does.
ChainOfOptions ==
  (ApplyOther /\ d.opts # <<>>)
    => /\ d.upd.kind # "nil"
       /\ SameCall(ulog', CallUpd(ChainUpdaters(d.opts), d.m, Head(body).cmd, Head(body).args))

\* C21: a chain of zero updaters rejects every command; a chain of one
\* updater that is not nil is that updater; the updaters registered by
\* repeated WithUpdater options answer as ChainUpdaters over them in the
\* order of registration.
C21_ChainCollapse == []ChainOfFew /\ [][ChainOfOptions]_vars

\* C21 witness: upd1 and upd2 were registered by two WithUpdater options and
\* the command "world" went to upd1, then to upd2, which supports it.
C21_Witness ==
  /\ pc = "lineCmds" /\ lineNo = 1
  /\ d.opts = <<BaseUpd("upd1"), BaseUpd("upd2")>>
  /\ Head(body).cmd = "world"
  /\ ulog.calls = <<"upd1", "upd2">>
  /\ ulog.r.supported

\* The task of the effect the driver is waiting for.
Waited == CHOOSE t \in tasks : t.id = cur.id

\* What a step does to, and with, the timeout of the session.
TimeoutSteps ==
  /\ (nsets' = nsets + 1 /\ out'.dir = "set")
       => \E v \in TimeoutVals :
            /\ d'.cmdTimeout = v
            /\ out'.text = <<[k |-> "set", v |-> "cmd_timeout: " \o ToString(v) \o "ms"]>>
  /\ (nsets' = nsets + 1 /\ out'.dir = "reset")
       => /\ d'.cmdTimeout = 20
          /\ out'.text = <<[k |-> "set", v |-> "ok"]>>
  /\ d'.cmdTimeout # d.cmdTimeout => (nsets' = nsets + 1 /\ pc = "idle")
  /\ (ph = "cmds" /\ ph' = "wait")
       => \E t \in tasks' \ tasks : t.id = cur'.id /\ t.tmo = d.cmdTimeout
  /\ (ph = "wait" /\ ph' = "cmds")
       => IF toRun' = toRun + 1
            THEN ~CmdTable[cur.c].returns \/ CmdTable[cur.c].dur >= Waited.tmo
            ELSE CmdTable[cur.c].returns /\ CmdTable[cur.c].dur <= Waited.tmo

\* While the driver waits for an effect, the timeout of the wait is the
\* timeout of the session.
TimeoutHeld ==
  ph = "wait" => \E t \in tasks : t.id = cur.id /\ t.waited /\ t.tmo = d.cmdTimeout

\* C22: set cmd_timeout=v makes v the timeout of the session and returns
\* "cmd_timeout: v"; reset cmd_timeout makes it 20ms again and returns "ok";
\* no other step changes it, and every execution of an effect waits with the
\* timeout the session has when the effect is started.
C22_SessionTimeout == []TimeoutHeld /\ [][TimeoutSteps]_vars

\* C22 witness: in one session an effect that takes 70ms timed out under the
\* default timeout and, after set cmd_timeout=500ms, returned its result.
C22_Witness ==
  /\ d.cmdTimeout = 500 /\ nsets = 1
  /\ \E i \in 1..Len(execLog) : execLog[i].c = "Slow" /\ execLog[i].id \in timedOut
  /\ \E i \in 1..Len(evLog) :
       /\ evLog[i].src = "cmd" /\ evLog[i].from.c = "Slow"
       /\ evLog[i].from.id \notin timedOut

\* RunOneTest has just rejected a directive.
Rejected(o) ==
  o.dir = "fatal" /\ \E verb \in {"observe", "quit"} :
     o.text = <<[k |-> "fatal", v |-> "unrecognized test directive: " \o verb]>>

\* C24: a directive that is not run, set or reset is fatal and leaves the
\* component state, both queues, the timeout and the initialization-done
\* flag, and all the rest of the driver, as they were.
C24_UnrecognizedDirective ==
  [][(pc = "idle" /\ Rejected(out') /\ out' # out)
     => /\ d'.m = d.m
        /\ d'.cmds = d.cmds /\ d'.inputs = d.inputs /\ d'.msgs = d.msgs
        /\ d'.cmdTimeout = d.cmdTimeout
        /\ d'.startDone = d.startDone
        /\ d' = d /\ pc' = "idle"
        /\ tasks' = tasks]_vars

\* C24 witness: a directive was rejected between two run directives, after
\* set cmd_timeout, with effects still queued and the initialization done.
C24_Witness ==
  /\ pc = "idle" /\ Rejected(out)
  /\ d.startDone /\ d.cmds # <<>>
  /\ d.cmdTimeout = 500
  /\ d.m # 0


\* The lines of the output that the Observer obs wrote.
LinesBy(o, obs) == SelectSeq(o.text, LAMBDA l : l.k = obs)

\* The places of the piece x in w, and w without the pieces of S.
Places(w, x) == {i \in 1..Len(w) : w[i] = x}
Without(w, S) == SelectSeq(w, LAMBDA x : x \notin S)

\* The view observer's output for the view text t, as the documentation of
\* observeView states it.
MarkedView(w, t) ==
  /\ Without(w, {LfMarker, NoEolMarker}) = t
  /\ \A i \in Places(w, LfMarker) : i < Len(w) /\ w[i + 1] = Newline
  /\ \A i \in Places(w, Newline) : i > 1 /\ w[i - 1] = LfMarker
  /\ Cardinality(Places(w, LfMarker)) = Cardinality(Places(t, Newline))
  /\ Places(w, NoEolMarker) =
       IF t = <<>> \/ t[Len(t)] # Newline THEN {Len(w)} ELSE {}

\* C23: the output of the "view" observer is the view text of the component
\* with one line-break marker before every newline and none elsewhere, and
\* with exactly one no-trailing-newline marker, at its end, iff the view text
\* is empty or does not end in a newline.
C23_ViewMarkers ==
  (out.dir = "run" /\ pc = "idle") =>
     \A i \in 1..Len(LinesBy(out, "observeView")) :
        MarkedView(LinesBy(out, "observeView")[i].w, ModelView(d))

C23_Witness ==
  /\ out.dir = "run" /\ pc = "idle"
  /\ d.mt = "textModel" /\ d.vt = <<Newline, "a">>
  /\ LinesBy(out, "observeView") # <<>>
  /\ LinesBy(out, "observeView")[1].v = "<LF>\na<NOEOL>"


\* The names driver.Observe can serve for the driver dr.
Served(dr, what) == what \in DOMAIN dr.observers \cup PseudoObservers

\* The built-in debug observer is asked for a component without Debug().
DebugMissing(dr, what) ==
  /\ what \in DOMAIN dr.observers
  /\ dr.observers[what] = "observeDebug"
  /\ ~HasDebug(dr)

\* The names of d.observe that make the run fatal.
FatalNames == {i \in 1..Len(d.observe) :
                 ~Served(d, d.observe[i]) \/ DebugMissing(d, d.observe[i])}

FirstFatal == CHOOSE i \in FatalNames : \A j \in FatalNames : i <= j

\* C25: at the end of a run, a requested name that is neither registered nor
\* msgs or cmds is fatal (unsupported observer), "debug" on a component
\* without the Debug method is fatal, and for every requested name that has
\* an observer registered, built in or by WithObserver, the output has the
\* line of that observer after the header of the name.
C25_ObserverByName ==
  (pc = "idle" /\ out.dir # "") =>
     IF FatalNames # {}
       THEN /\ out.dir = "fatal"
            /\ out.text[1].v =
                 (IF Served(d, d.observe[FirstFatal]) THEN "observing "
                  ELSE "unsupported observer ") \o d.observe[FirstFatal]
       ELSE /\ out.dir = "run"
            /\ Len(out.text) = 2 * Len(d.observe)
            /\ \A i \in 1..Len(d.observe) :
                 /\ out.text[2 * i - 1].v = "-- " \o d.observe[i] \o ":"
                 /\ d.observe[i] \in DOMAIN d.observers =>
                      out.text[2 * i].k = d.observers[d.observe[i]]

\* The same for the requested names other than msgs and cmds.
C25_ObserverByOtherName ==
  (pc = "idle" /\ out.dir # "") =>
     IF FatalNames # {}
       THEN /\ out.dir = "fatal"
            /\ out.text[1].v =
                 (IF Served(d, d.observe[FirstFatal]) THEN "observing "
                  ELSE "unsupported observer ") \o d.observe[FirstFatal]
       ELSE /\ out.dir = "run"
            /\ Len(out.text) = 2 * Len(d.observe)
            /\ \A i \in 1..Len(d.observe) :
                 /\ out.text[2 * i - 1].v = "-- " \o d.observe[i] \o ":"
                 /\ (d.observe[i] \in DOMAIN d.observers \ PseudoObservers) =>
                      out.text[2 * i].k = d.observers[d.observe[i]]


\* The command a test passes to the chain and the path it addresses.
FieldCmd == Head(body).cmd
FieldPath == Head(body).args[1]

\* The commands of the field updater n, the type of the fields it changes
\* and the field that the path addresses when the prefix is that of n.
CmdsOf(n) == IF n = "keymap" THEN {"keybind", "keyhelp"} ELSE {"restyle"}
TypeOf(n) == IF n = "keymap" THEN "key.Binding" ELSE "lipgloss.Style"
Own(n) == HasPrefix(FieldPath, PrefixOf(n) \o <<".">>)
Addressed(n) == Text(SubSeq(FieldPath, Len(PrefixOf(n)) + 2, Len(FieldPath)))

\* The command has the values its syntax asks for after the path.
WithValues == Len(Head(body).args) >= (IF FieldCmd = "keyhelp" THEN 3 ELSE 2)

\* A test calls a chain whose first updater is a field updater, with one of
\* the commands of that updater on a path.
CallsFieldUpdater ==
  /\ pc = "test" /\ pc' = "tested"
  /\ d.opts # <<>> /\ d.opts[1].name \in FieldUpdaters
  /\ FieldCmd \in CmdsOf(d.opts[1].name)
  /\ Head(body).args # <<>>

\* What the claim says of the first updater of the chain: the field updater
\* n, called alone, and the chain when its first updater does not handle.
FieldOutcome ==
  LET n == d.opts[1].name
  IN /\ ~Own(n) =>
          /\ ulog'.calls[1] = n
          /\ Len(d.opts) = 1 =>
               /\ ~ulog'.r.supported /\ ~ulog'.r.err
               /\ ulog'.r.m = d.m /\ d'.km = d.km
          /\ Len(d.opts) > 1 =>
               /\ Len(ulog'.calls) > 1 /\ ulog'.calls[2] = d.opts[2].name
     /\ (Own(n) /\ Addressed(n) \notin DOMAIN d.km) =>
          /\ ulog'.calls = <<n>>
          /\ ulog'.r.err /\ ulog'.r.why = "does not contain a field named"
          /\ d'.km = d.km
     /\ (Own(n) /\ Addressed(n) \in DOMAIN d.km /\ d.km[Addressed(n)].type # TypeOf(n)) =>
          /\ ulog'.calls = <<n>>
          /\ ulog'.r.err /\ ulog'.r.why = "does not have type " \o TypeOf(n)
          /\ d'.km = d.km

\* C26 as stated: for a key-binding or style updater and one of its
\* commands on a path, a prefix that is not its own yields not handled, no
\* error, model unchanged, and the next updater is tried; its own prefix with
\* an unknown field yields the error "no such field", with a field of the
\* wrong type the error "wrong field type", and the struct is unchanged.
C26_FieldPathOutcome == [][CallsFieldUpdater => FieldOutcome]_vars

\* C26 as amended: the same for a command that has the values its syntax
\* asks for after the path (one for restyle and keybind, two for keyhelp).
C26_FieldPathWithValues == [][(CallsFieldUpdater /\ WithValues) => FieldOutcome]_vars

C26_Witness ==
  /\ pc = "tested"
  /\ d.opts = <<BaseUpd("styles"), BaseUpd("styles2")>>
  /\ Head(body) = [cmd |-> "restyle", args |-> << <<"q", ".", "N">>, <<"bold">> >>]
  /\ ulog.calls = <<"styles", "styles2">>
  /\ ulog.r.err /\ ulog.r.why = "does not have type lipgloss.Style"
  /\ d.km = StyledStruct


\* The tasks the driver is waiting on.
WaitedOn == {t \in tasks : t.waited}

\* At most one task is waited on, and it is the task of the effect that
\* runTeaCmd is executing.
OneWait ==
  /\ Cardinality(WaitedOn) <= 1
  /\ ph = "wait" => WaitedOn = {t \in tasks : t.id = cur.id} /\ WaitedOn # {}
  /\ ph # "wait" => WaitedOn = {}

\* A step that starts tasks starts one, when no wait is going on, and the
\* wait on a task ends by receiving its result or by the timeout.
StartsAfterWait ==
  /\ tasks' \ tasks # {} /\ (\E t \in tasks' \ tasks : t.id \notin {u.id : u \in tasks})
       => /\ WaitedOn = {}
          /\ Cardinality({t.id : t \in tasks'} \ {t.id : t \in tasks}) = 1
          /\ execLog' = Append(execLog, cur')
  /\ WaitedOn # {} /\ {t.id : t \in WaitedOn'} # {t.id : t \in WaitedOn}
       => /\ WaitedOn' = {}
          /\ \/ /\ cur.id \notin {t.id : t \in tasks'}
                /\ \E t \in tasks : t.id = cur.id /\ t.st = "sent"
                /\ timedOut' = timedOut
             \/ /\ timedOut' = timedOut \cup {cur.id}
                /\ cur.id \notin timedOut

\* C29: the driver never starts the task of an effect before its wait on the
\* effect started before has ended, by receiving the result or by timeout;
\* at any time there is at most one task the driver is waiting on.
C29_OneAtATime == []OneWait /\ [][StartsAfterWait]_vars

C29_Witness ==
  /\ ph = "wait"
  /\ \E t \in tasks : t.waited /\ t.id = cur.id
  /\ \E t \in tasks : ~t.waited /\ t.st = "running" /\ t.id < cur.id


\* C27: with the component of the model, whose chains of effects and events
\* are bounded and whose composites expand to finitely many primitive
\* effects, every run directive that has begun returns, although the effect
\* Never does not return and the effect Slow outlasts the default timeout.
C27_RunTerminates == (pc # "idle") ~> (pc = "idle" /\ out.dir \in {"run", "fatal"})

C27_Witness ==
  /\ pc = "idle" /\ out.dir = "run"
  /\ \E i \in 1..Len(execLog) : execLog[i].c = "Never" /\ execLog[i].id \in timedOut
  /\ \E t \in tasks : t.c = "Never" /\ t.st = "running"

\* C30: every wait of runTeaCmd on an effect ends and the execution goes
\* back to the loop of processTeaCmds, for an effect that returns in time,
\* for one that returns late and for one that never returns.
C30_WaitEnds == (ph = "wait") ~> (ph = "cmds")

C30_Witness ==
  /\ ph = "cmds"
  /\ cur.c = "Never" /\ cur.id \in timedOut
  /\ \E i \in 1..Len(execLog) : execLog[i].c = "Slow" /\ execLog[i].id \in timedOut
  /\ \E i \in 1..Len(evLog) : evLog[i].src = "cmd" /\ evLog[i].from.id \notin timedOut


\* The effect c is in the queue of effects or in the work list.
Queued(c) ==
  \E i \in 1..Len(InputsMerge(d.inputs, d.cmds)) : InputsMerge(d.inputs, d.cmds)[i].c = c

\* C28 as stated: once a chain that does not end has begun in a run
\* directive, either the composite Forever, which yields itself, or the
\* effect Again, whose opaque event makes update return Again, the directive
\* does not return.
C28_UnboundedNeverReturns ==
  (Started("Forever") > 0 \/ Started("Again") > 0) => pc # "idle"

\* C28 as amended: once the composite that yields itself has been started,
\* processTeaCmds always has work left when it tests its work list, and the
\* directive does not return; the chain of Again does not keep a directive
\* from returning: when it returns, Again is queued for the next one.
C28_CompositeNeverReturns ==
  /\ Started("Forever") > 0 =>
       /\ pc # "idle" /\ ph \in {"cmds", "wait"}
       /\ ph = "cmds" => Queued("Forever")
       /\ ph = "wait" => cur.c = "Forever" \/ Queued("Forever")
  /\ (Started("Forever") = 0 /\ Started("Again") > 0 /\ pc = "idle") =>
       out.dir = "run" /\ Queued("Again")

C28_Witness ==
  /\ Started("Forever") = MaxLoop
  /\ Started("Again") > 0
  /\ ph = "cmds" /\ Queued("Forever") /\ pc = "fin2"


\* The effect instances waiting in the work list and in d.cmds, and the ids
\* of a sequence of effect instances.
Waiting == InputsMerge(d.inputs, d.cmds)
IdsOf(q) == {q[i].id : i \in 1..Len(q)}
Distinct(q) == Cardinality(IdsOf(q)) = Len(q)

\* C31: no effect instance is run twice: the instances run so far are
\* distinct, those waiting are distinct, and none that waits has been run.
C31_RunAtMostOnce ==
  /\ Distinct(execLog)
  /\ Distinct(Waiting)
  /\ IdsOf(Waiting) \cap IdsOf(execLog) = {}

C31_Witness ==
  /\ nruns = 2 /\ ph = "cmds"
  /\ \E i \in 1..Len(execLog) : execLog[i].at = "fin3"
  /\ \E i \in 1..Len(execLog) : execLog[i].par # 0
  /\ Len(execLog) > 8 /\ Waiting # <<>>


\* runTeaCmd returns nil: the effect returned nil or the timer fired.
NilResult ==
  /\ ph = "wait" /\ ph' = "cmds"
  /\ toRun' = toRun + 1 \/ CmdTable[cur.c].res.type = "nil"

\* No queue holds a nil entry.
NoNilQueued ==
  /\ \A i \in 1..Len(d.msgs) : d.msgs[i].msg.type # "nil"
  /\ \A i \in 1..Len(d.cmds) : d.cmds[i].c # NilCmd
  /\ \A i \in 1..Len(d.inputs) : d.inputs[i].c # NilCmd

\* C33: a nil result, from an effect that returns nothing or from a timeout,
\* renders nothing and queues no event, and no queue ever holds a nil event
\* or a nil effect.
C33_NilDropped ==
  /\ []NoNilQueued
  /\ [][NilResult => /\ d'.msgs = d.msgs /\ d'.cmds = d.cmds
                     /\ Shown(d') = Shown(d)
                     /\ evLog' = evLog /\ updLog' = updLog]_vars

C33_Witness ==
  /\ ph = "cmds" /\ traceEnabled
  /\ \E i \in 1..Len(execLog) : execLog[i].c = "NilF"
  /\ cur.c = "Never" /\ cur.id \in timedOut
  /\ \E i \in 1..Len(execLog) : execLog[i].c = "SeqU"
  /\ d.result[Len(d.result)] = [k |-> "trace", v |-> "translated cmd: nil"]


\* The sequence a is b with some of its entries left out.
RECURSIVE IsSubSeq(_, _)
IsSubSeq(a, b) ==
  IF a = <<>> THEN TRUE
  ELSE IF b = <<>> THEN FALSE
  ELSE IF Head(a) = Head(b) THEN IsSubSeq(Tail(a), Tail(b))
  ELSE IsSubSeq(a, Tail(b))

\* The events of q that effects returned.
FromCmds(q) == SelectSeq(q, LAMBDA e : e.src = "cmd")

\* The events of q that effects returned are in the order in which their
\* effects were executed (no effect is executed twice, so that the ids of
\* execLog are distinct).
InExecOrder(q) ==
  LET es == FromCmds(q)
  IN IsSubSeq([i \in 1..Len(es) |-> es[i].from.id],
              [i \in 1..Len(execLog) |-> execLog[i].id])

\* C32: the events that executed effects return are appended to the event
\* queue, behind every event already there, in the order in which their
\* effects were dequeued and executed.
C32_EventsInExecOrder ==
  /\ [](InExecOrder(d.msgs) /\ InExecOrder(evLog))
  /\ [][ph = "wait" /\ ph' = "cmds" =>
          /\ Len(d'.msgs) \in {Len(d.msgs), Len(d.msgs) + 1}
          /\ SubSeq(d'.msgs, 1, Len(d.msgs)) = d.msgs
          /\ \A i \in Len(d.msgs) + 1 .. Len(d'.msgs) :
               d'.msgs[i].src = "cmd" /\ d'.msgs[i].from.id = execLog[Len(execLog)].id]_vars

C32_Witness ==
  /\ ph = "cmds"
  /\ Len(FromCmds(d.msgs)) >= 2
  /\ d.msgs[Len(d.msgs)].from.id = execLog[Len(execLog)].id
  /\ \E i \in 1..Len(d.msgs) : d.msgs[i].src # "cmd"


\* The updater handled the input command applied last, without error.
Handled == ulog # NoCall /\ ulog.r.supported /\ ~ulog.r.err

\* The executed effect e, if its result is a composite, was expanded: each
\* of its non-nil members was executed as a child of e.
Expanded(e) ==
  LET res == CmdTable[e.c].res
  IN (e.id \notin timedOut /\ res.type # "nil" /\ IsCmdsType(res)) =>
       \A k \in 1..Len(res.cmds) :
          res.cmds[k] # NilCmd =>
            \E j \in 1..Len(execLog) : execLog[j].par = e.id /\ execLog[j].c = res.cmds[k]

\* handleRun has finished the step of an input command of this directive.
StepDone == pc = "loop" /\ lineNo >= 1

\* C34: when the updater handles an input command without error, d.m becomes
\* the model it returned and its effect is queued; by the end of the step of
\* that input command, before the next is applied, the effect and the
\* members of every composite it led to have been executed.
C34_UpdaterApplied ==
  /\ [][(pc = "apply" /\ pc' = "lineCmds" /\ Handled')
          => /\ d'.m = ulog'.r.m
             /\ ulog'.r.cmd = NilCmd => d'.cmds = d.cmds
             /\ ulog'.r.cmd # NilCmd =>
                  /\ Len(d'.cmds) = Len(d.cmds) + 1
                  /\ LET c == d'.cmds[Len(d'.cmds)]
                     IN c.c = ulog'.r.cmd /\ c.at = "apply" /\ c.gen = ncmd' /\ c.id = nextId]_vars
  /\ []((StepDone /\ Handled) =>
          /\ Pending = <<>>
          /\ ulog.r.cmd # NilCmd =>
               \E i \in 1..Len(execLog) :
                  execLog[i].c = ulog.r.cmd /\ execLog[i].at = "apply" /\ execLog[i].gen = ncmd
          /\ \A i \in 1..Len(execLog) : execLog[i].gen = ncmd => Expanded(execLog[i]))

C34_Witness ==
  /\ StepDone /\ Handled /\ body # <<>>
  /\ ulog.r.cmd = "BatchT"
  /\ d.m = 2 * StartModel
  /\ \E i, j \in 1..Len(execLog) :
       /\ execLog[i].c = "SeqT" /\ execLog[i].gen = ncmd
       /\ execLog[j].par = execLog[i].id /\ execLog[j].c = "MouseAll"


\* C35: when the updater chain returns an error for an input command, the
\* directive ends with the fatal "updater error", no further input command
\* of it is applied, the chain is not called again, and the driver (its
\* model, the struct its appliers hold, both queues) is as before the call.
C35_UpdaterErrorFatal ==
  [][(pc = "apply" /\ ulog'.r.err)
       => /\ pc' = "idle" /\ body' = <<>>
          /\ out' = [dir |-> "fatal", text |-> <<[k |-> "fatal", v |-> "updater error"]>>]
          /\ nfatal' = nfatal + 1
          /\ d' = d
          /\ ApplyTextCommand(d, Head(body).cmd, Head(body).args, ncmd + 1).d = d
          /\ Len(ulog'.calls) <= Len(Flatten(d.upd))]_vars

C35_Witness ==
  /\ pc = "idle" /\ out.dir = "fatal"
  /\ ulog.r.err /\ ulog.r.supported
  /\ Len(ulog.calls) >= 2
  /\ d.km = StyledStruct /\ d.m = StartModel


\* The set or reset directive fails: the number of its arguments is not one,
\* set has not exactly one value, reset has a value, the key is not
\* cmd_timeout, or the value of set is not a duration.
SetFails(verb, args) ==
  \/ Len(args) # 1
  \/ verb = "set" /\ Len(args[1].vals) # 1
  \/ verb = "reset" /\ Len(args[1].vals) # 0
  \/ args[1].key # "cmd_timeout"
  \/ verb = "set" /\ ~ParseDuration(args[1].vals[1]).ok

\* C36: a set or reset directive that fails is fatal and leaves the
\* configured timeout (and the rest of the driver) as it was.
C36_FailedSetFatal ==
  [][\A verb \in {"set", "reset"}, args \in SetArgLists :
       (nsets' # nsets /\ SetFails(verb, args) /\ HandleSetArgs(verb, args))
         => /\ out'.dir = "fatal"
            /\ d'.cmdTimeout = d.cmdTimeout
            /\ d' = d]_vars

C36_Witness ==
  /\ out = [dir |-> "fatal", text |-> <<[k |-> "fatal", v |-> "invalid timeout value"]>>]
  /\ d.cmdTimeout = LongTimeout
  /\ nruns = 1 /\ timedOut # {}


\* Every task the driver abandoned whose computation returns has made its
\* send.
AbandonedDone ==
  \A t \in tasks : (~t.waited /\ CmdTable[t.c].returns) => t.st = "sent"

\* A task makes its send in this step.
SendStep ==
  \E t \in tasks : t.st = "running" /\ [t EXCEPT !.st = "sent"] \in tasks'

\* The send of a task whose computation returns is possible, whether or not
\* the driver still waits for it, unless it can only return after the timer
\* of the driver's wait; a task that has sent cannot send again.
SendNeverBlocks ==
  \A t \in tasks :
     /\ (t.st = "running" /\ CmdTable[t.c].returns
           /\ (t.waited => CmdTable[t.c].dur <= t.tmo)) => ENABLED TaskSend(t)
     /\ t.st = "sent" => ~ENABLED TaskSend(t)
     /\ \A u \in tasks : u.id = t.id => u = t

\* C37: the task of an effect does nothing but one send on its own channel:
\* the step of its send changes neither the driver (model, queues, output)
\* nor anything else but the task itself, the send is possible whenever its
\* computation has returned, and a task the driver abandoned makes its send
\* once its computation returns: an abandoned task stays until it sends, and
\* from some point on every abandoned task that returns has sent.
C37_TaskOnlySends ==
  /\ []SendNeverBlocks
  /\ [][SendStep =>
          /\ d' = d /\ tw' = tw
          /\ <<pc, ph, cur, mi, out, execLog, evLog, updLog>>' =
               <<pc, ph, cur, mi, out, execLog, evLog, updLog>>
          /\ \E t \in tasks : tasks' = (tasks \ {t}) \cup {[t EXCEPT !.st = "sent"]}]_vars
  /\ [][\A t \in tasks : ~t.waited => t \in tasks' \/ [t EXCEPT !.st = "sent"] \in tasks']_vars
  /\ <>[]AbandonedDone

C37_Witness ==
  /\ \E t \in tasks : ~t.waited /\ t.st = "sent" /\ t.id \in timedOut
  /\ \E t \in tasks : ~t.waited /\ t.st = "running" /\ ~CmdTable[t.c].returns
  /\ pc = "idle" /\ out.dir = "run"


\* processTeaCmds / processTeaMsgs returns in this step.
CmdsReturns == ph = "cmds" /\ ph' \notin {"cmds", "wait"}
MsgsReturns == ph = "msgs" /\ ph' # "msgs"

\* C38: when processTeaCmds returns, d.cmds (and its work list) is empty;
\* when processTeaMsgs returns, d.msgs is empty; and d.msgs is empty
\* whenever no run directive is under way, so whenever one has returned.
C38_DrainedOnReturn ==
  /\ [][CmdsReturns => d'.cmds = <<>> /\ d'.inputs = <<>>]_vars
  /\ [][MsgsReturns => d'.msgs = <<>>]_vars
  /\ [](pc = "idle" => d.msgs = <<>>)

C38_Witness ==
  /\ pc = "fin3" /\ ph = "msgs" /\ mi = 1
  /\ d.cmds = <<>> /\ Len(d.msgs) >= 2
  /\ \E i \in 1..Len(execLog) : execLog[i].at = "fin1"
  /\ nruns = 2


\* The effect c is the last entry of the queue q, queued with the id n.
QueuedLast(q, c, n) == q # <<>> /\ q[Len(q)].c = c /\ q[Len(q)].id = n

\* C39: no effect is lost.  A non-nil effect that Init, Update or the updater
\* returns is queued; a queued effect leaves the queue only by being
\* executed, and the record of executed effects only grows, whatever the
\* directive; and when the last event-draining pass of a run directive
\* begins no effect is queued, so that the effects the previous directive
\* left have been executed by then.
C39_NoEffectLost ==
  /\ [][/\ \A i \in 1..Len(Pending) :
              Pending[i].id \in IdsOf(Pending') \cup IdsOf(execLog')
        /\ SubSeq(execLog', 1, Len(execLog)) = execLog]_vars
  /\ [][(pc = "idle" /\ pc' # "idle" /\ CallsInit(d)) => QueuedLast(Pending', ModelInit, nextId)]_vars
  /\ [][(ph = "msgs" /\ mi' = mi + 1 /\ ~IsRendered(d.msgs[mi].msg)
           /\ Update(d.m, d.msgs[mi].msg).cmd # NilCmd)
          => QueuedLast(d'.cmds, Update(d.m, d.msgs[mi].msg).cmd, nextId)]_vars
  /\ [][(pc = "apply" /\ pc' = "lineCmds" /\ ulog'.r.cmd # NilCmd)
          => QueuedLast(d'.cmds, ulog'.r.cmd, nextId)]_vars
  /\ []((pc = "fin3" /\ mi = 1) => Pending = <<>>)

C39_Witness ==
  /\ nruns = 2 /\ pc = "fin3" /\ mi = 1
  /\ \E i \in 1..Len(execLog) : execLog[i].at = "fin3"
  /\ \E i \in 1..Len(execLog) : execLog[i].at = "init"
  /\ \E i \in 1..Len(execLog) : execLog[i].at = "apply"


\* The driver without its output (and without the ghost field mute).
Inner(dr) == [dr EXCEPT !.result = <<>>, !.mute = FALSE]

\* The trace lines after which a traced run renders its observations before
\* the end of the directive.
IntermediateMarks ==
  {"before finish"} \cup {"after " \o c.cmd : c \in InputCmds}

\* The lines of q other than the trace lines and other than the observations
\* that follow a trace line of IntermediateMarks; skip tells whether the line
\* before was such a trace line or one of its observations.
RECURSIVE Strip(_, _)
Strip(q, skip) ==
  IF q = <<>> THEN <<>>
  ELSE LET l == Head(q)
       IN IF l.k = "trace" THEN Strip(Tail(q), l.v \in IntermediateMarks)
          ELSE IF l.k = "tea" THEN <<l>> \o Strip(Tail(q), FALSE)
          ELSE IF skip THEN Strip(Tail(q), TRUE)
          ELSE <<l>> \o Strip(Tail(q), FALSE)

====
